---- MODULE Spec2Model ----
(***************************************************************************)
(* Wallet balance aggregation (WalletBalanceUtil), asset transfers         *)
(* (TransferService), wallet creation (WalletService), the wallet, transfer*)
(* and user resolvers, and the RatesService of the wallet GraphQL backend. *)
(*                                                                         *)
(* The hosted wallet platform (the Pay100 client) is an external           *)
(* collaborator: its ledger is the variable `ledger`, its history endpoint *)
(* serves one page of it, and its calls may fail at any time.              *)
(***************************************************************************)
EXTENDS Integers, Sequences, FiniteSets, Bags, TLC

VARIABLES
  ledger,        \* platform: (accountId, symbol) -> transaction history
  \* -- a direct call of processTransactions
  transactions,  \* its argument
  retTx,         \* its returnTransactions argument
  ptPc,          \* "ready" | "done"
  ptResult,      \* the BalanceResult it returned
  \* -- calculateBalance calls
  util,          \* the WalletBalanceUtil instance: its fields
  awaiting,      \* the calls suspended at their await of getHistory, a bag
  lastCall,      \* the most recent completed calculateBalance call
  prevCall,      \* some earlier completed calculateBalance call
  \* -- one calculateMultipleBalances call
  walletInfos,   \* its argument
  task,          \* per item: "fetching" | "ok" | "failed"
  settledOrder,  \* the items in the order their fetches settled
  balances,      \* the record being filled, accountId -> BalanceResult
  batchPc,       \* "idle" | "running" | "resolved" | "rejected"
  \* -- one transferAssets call
  store,         \* the UserWallet collection
  req,           \* the call's arguments
  xferPc,        \* position in transferAssets
  fromWallet,    \* the sender wallet found
  walletAddress, \* the destination resolved
  executed,      \* the executeTransfer payloads sent during this call
  outcome,       \* how the call settled
  \* -- one call of a resolver or of a service method
  userDocs,      \* the User collection
  ctxUser,       \* context.user.data.id of the request
  call,          \* the operation called and its arguments
  callPc,        \* position in the call
  locals,        \* its local variables kept across awaits
  effects,       \* its platform calls, wallet reads and writes, HTTP requests
  callResult,    \* how the call settled
  storeAtCall,   \* the UserWallet collection as it was when the call was made
  rates          \* the RatesService instance

vars == << ledger, transactions, retTx, ptPc, ptResult,
           util, awaiting, lastCall, prevCall,
           walletInfos, task, settledOrder, balances, batchPc,
           store, req, xferPc, fromWallet, walletAddress, executed, outcome,
           userDocs, ctxUser, call, callPc, locals, effects, callResult,
           storeAtCall, rates >>

foldVars  == << transactions, retTx, ptPc, ptResult >>
callVars  == << util, awaiting, lastCall, prevCall >>
batchVars == << walletInfos, task, settledOrder, balances, batchPc >>
xferVars  == << store, req, xferPc, fromWallet, walletAddress, executed, outcome >>
svcVars   == << userDocs, ctxUser, call, callPc, locals, effects, callResult,
                storeAtCall, rates >>

(***************************************************************************)
(* Bounds of the model.                                                    *)
(***************************************************************************)
MaxLen == 3      \* longest transaction list handed to processTransactions
MaxInfos == 2    \* longest walletInfos list handed to calculateMultipleBalances
MaxCalls == 2    \* most calculateBalance calls awaiting their history at once

(***************************************************************************)
(* JavaScript values.  undefined is Undefined and null is Null; both are   *)
(* falsy, and only undefined takes a parameter's default.  A lookup that   *)
(* finds no document answers a value of its own (NoWallet, the empty set). *)
(* A number is kept in tenths, exactly: every amount of the model has at   *)
(* most one fractional digit, 0 or 5, so that IEEE double arithmetic on    *)
(* them is exact and agrees with the integers used here.  NaN is a number  *)
(* of its own that absorbs every sum.  A quotient or a product that is no  *)
(* such number is a double with its significand, see convertCurrency.      *)
(***************************************************************************)
Undefined == "undefined"
Null == "null"

NaN == [nan |-> TRUE, v |-> 0]
Num(tenths) == [nan |-> FALSE, v |-> tenths]
Zero == Num(0)

Add(a, b) == IF a.nan \/ b.nan THEN NaN ELSE Num(a.v + b.v)
Sub(a, b) == IF a.nan \/ b.nan THEN NaN ELSE Num(a.v - b.v)
\* a > b; every comparison with NaN is false
Gt(a, b) == ~a.nan /\ ~b.nan /\ a.v > b.v

(***************************************************************************)
(* Strings that the code parses are sequences of characters.               *)
(***************************************************************************)
Digits == {"0", "1", "2", "3", "4", "5", "6", "7", "8", "9"}

DigitValue(c) ==
  CASE c = "0" -> 0 [] c = "1" -> 1 [] c = "2" -> 2 [] c = "3" -> 3
    [] c = "4" -> 4 [] c = "5" -> 5 [] c = "6" -> 6 [] c = "7" -> 7
    [] c = "8" -> 8 [] c = "9" -> 9

\* the length of the longest run of digits of s that starts at position i
RECURSIVE DigitRun(_, _)
DigitRun(s, i) ==
  IF i <= Len(s) /\ s[i] \in Digits THEN 1 + DigitRun(s, i + 1) ELSE 0

\* the decimal value of the n digits of s that start at position i
RECURSIVE DigitsValue(_, _, _)
DigitsValue(s, i, n) ==
  IF n = 0 THEN 0
  ELSE 10 * DigitsValue(s, i, n - 1) + DigitValue(s[i + n - 1])

\* parseFloat: the longest prefix  [+-] digits [. digits]  is the number, the
\* rest of the string is ignored, and a string with no such prefix is NaN.
\* (No string of the model holds white space, an exponent or "Infinity", nor
\* more than one fractional digit.)
parseFloat(s) ==
  LET signed   == Len(s) >= 1 /\ s[1] \in {"-", "+"}
      negative == Len(s) >= 1 /\ s[1] = "-"
      start    == IF signed THEN 2 ELSE 1
      ni       == DigitRun(s, start)
      dot      == start + ni
      hasDot   == dot <= Len(s) /\ s[dot] = "."
      nf       == IF hasDot THEN DigitRun(s, dot + 1) ELSE 0
      whole    == DigitsValue(s, start, ni)
      tenth    == IF nf >= 1 THEN DigitValue(s[dot + 1]) ELSE 0
      mag      == 10 * whole + tenth
  IN  IF ni = 0 /\ nf = 0 THEN NaN
      ELSE Num(IF negative THEN 0 - mag ELSE mag)

(***************************************************************************)
(* ITransferHistoryItem, as far as the balance calculation reads it.       *)
(* "completed" is a status of the platform's API (mapTransactionStatus),   *)
(* "transfer" stands for every type that is neither credit nor debit.      *)
(***************************************************************************)
TxTypes == {"credit", "debit", "transfer"}
TxStatuses == {"successful", "pending", "failed", "completed"}
AmountStrings == { <<"2">>, <<"0", ".", "5">> }
NotANumber == <<"a", "b", "c">>

Tx(type, status, amount) == [type |-> type, status |-> status, amount |-> amount]
TxUniverse ==
  { Tx(t, s, a) : t \in TxTypes, s \in TxStatuses, a \in AmountStrings }
    \cup { Tx("credit", "successful", NotANumber) }

RECURSIVE SeqsUpTo(_, _)
SeqsUpTo(S, n) ==
  IF n = 0 THEN { << >> }
  ELSE LET shorter == SeqsUpTo(S, n - 1)
       IN  shorter \cup { Append(q, e) : q \in { p \in shorter : Len(p) = n - 1 }, e \in S }

(***************************************************************************)
(* WalletBalanceUtil.processTransactions                                   *)
(***************************************************************************)
\* The accumulators kept on the instance and never reset: a call starts from
\* what the call before it left there.
ZeroAccKeptAcrossCalls ==
  IF lastCall.done /\ lastCall.ok
  THEN [totalBalance     |-> lastCall.value.totalBalance,
        availableBalance |-> lastCall.value.availableBalance,
        pendingCredits   |-> lastCall.value.pendingCredits,
        pendingDebits    |-> lastCall.value.pendingDebits]
  ELSE [totalBalance |-> Zero, availableBalance |-> Zero,
        pendingCredits |-> Zero, pendingDebits |-> Zero]

\* let totalBalance = 0, availableBalance = 0, pendingCredits = 0, pendingDebits = 0
ZeroAcc == [totalBalance |-> Zero, availableBalance |-> Zero,
            pendingCredits |-> Zero, pendingDebits |-> Zero]

\* The loop body with pending amounts left out of totalBalance.
ApplyTransactionNoPendingTotal(acc, tx) ==
  LET amount == parseFloat(tx.amount)
  IN  IF tx.status = "failed" THEN acc
      ELSE IF tx.type = "credit" /\ tx.status = "successful" THEN
        [acc EXCEPT !.totalBalance = Add(@, amount), !.availableBalance = Add(@, amount)]
      ELSE IF tx.type = "credit" /\ tx.status = "pending" THEN
        [acc EXCEPT !.pendingCredits = Add(@, amount)]
      ELSE IF tx.type = "debit" /\ tx.status = "successful" THEN
        [acc EXCEPT !.totalBalance = Sub(@, amount), !.availableBalance = Sub(@, amount)]
      ELSE IF tx.type = "debit" /\ tx.status = "pending" THEN
        [acc EXCEPT !.pendingDebits = Add(@, amount)]
      ELSE acc

\* The loop body with pending amounts counted as available.
ApplyTransactionPendingAvailable(acc, tx) ==
  LET amount == parseFloat(tx.amount)
  IN  IF tx.status = "failed" THEN acc
      ELSE IF tx.type = "credit" /\ tx.status \in {"successful", "pending"} THEN
        [acc EXCEPT !.totalBalance = Add(@, amount), !.availableBalance = Add(@, amount)]
      ELSE IF tx.type = "debit" /\ tx.status \in {"successful", "pending"} THEN
        [acc EXCEPT !.totalBalance = Sub(@, amount), !.availableBalance = Sub(@, amount)]
      ELSE acc

\* one pass of the loop body
ApplyTransaction(acc, tx) ==
  LET amount == parseFloat(tx.amount)
  IN  IF tx.status = "failed" THEN acc
      ELSE IF tx.type = "credit" THEN
        IF tx.status = "successful" THEN
          [acc EXCEPT !.totalBalance = Add(@, amount),
                      !.availableBalance = Add(@, amount)]
        ELSE IF tx.status = "pending" THEN
          [acc EXCEPT !.totalBalance = Add(@, amount),
                      !.pendingCredits = Add(@, amount)]
        ELSE acc
      ELSE IF tx.type = "debit" THEN
        IF tx.status = "successful" THEN
          [acc EXCEPT !.totalBalance = Sub(@, amount),
                      !.availableBalance = Sub(@, amount)]
        ELSE IF tx.status = "pending" THEN
          [acc EXCEPT !.totalBalance = Sub(@, amount),
                      !.pendingDebits = Add(@, amount)]
        ELSE acc
      ELSE acc

\* the loop over txs[lo..hi], in index order, from the accumulators acc.  The
\* range is split in two so that the evaluation stays shallow on a full page;
\* the left part is evaluated (left = left) before the right part starts.
RECURSIVE LoopRange(_, _, _, _)
LoopRange(txs, acc, lo, hi) ==
  IF lo > hi THEN acc
  ELSE IF lo = hi THEN ApplyTransaction(acc, txs[lo])
  ELSE LET mid  == (lo + hi) \div 2
           left == LoopRange(txs, acc, lo, mid)
       IN  IF left = left THEN LoopRange(txs, left, mid + 1, hi) ELSE left

processTransactions(txs, returnTransactions) ==
  LET acc == LoopRange(txs, ZeroAcc, 1, Len(txs))
  IN  [totalBalance     |-> acc.totalBalance,
       availableBalance |-> acc.availableBalance,
       pendingCredits   |-> acc.pendingCredits,
       pendingDebits    |-> acc.pendingDebits,
       transactions     |-> IF returnTransactions THEN txs ELSE << >>]

(***************************************************************************)
(* Values of the variables a specification does not use.                   *)
(***************************************************************************)
NoCall == [done |-> FALSE]
NoWallet == [found |-> FALSE]
NoLocals == [accounts |-> << >>, saved |-> << >>]
NoRates == [constructed |-> FALSE]

\* new WalletBalanceUtil(pay100Client): this.client = pay100Client, the one
\* field of the class
Pay100Client == "pay100"
WalletBalanceUtil(pay100Client) == [client |-> pay100Client]

FoldIdle == transactions = << >> /\ retTx = FALSE /\ ptPc = "idle" /\ ptResult = Undefined
CallsIdle ==
  /\ util = WalletBalanceUtil(Pay100Client)
  /\ awaiting = EmptyBag /\ lastCall = NoCall /\ prevCall = NoCall
BatchIdle ==
  /\ walletInfos = << >> /\ task = << >> /\ settledOrder = << >>
  /\ balances = << >> /\ batchPc = "idle"
XferIdle ==
  /\ store = {} /\ req = Undefined /\ xferPc = "idle" /\ fromWallet = NoWallet
  /\ walletAddress = Undefined /\ executed = << >> /\ outcome = Undefined
LedgerIdle == ledger = << >>
SvcIdle ==
  /\ userDocs = {} /\ ctxUser = Undefined /\ call = Undefined /\ callPc = "idle"
  /\ locals = NoLocals /\ effects = << >> /\ callResult = Undefined
  /\ storeAtCall = {} /\ rates = NoRates

(***************************************************************************)
(* processTransactions called on a transaction list.                       *)
(***************************************************************************)
FoldInit ==
  /\ transactions \in SeqsUpTo(TxUniverse, MaxLen)
  /\ retTx = FALSE /\ ptPc = "ready" /\ ptResult = Undefined
  /\ LedgerIdle /\ CallsIdle /\ BatchIdle /\ XferIdle /\ SvcIdle

ProcessTransactions ==
  /\ ptPc = "ready"
  /\ \E returnTransactions \in BOOLEAN :
       /\ retTx' = returnTransactions
       /\ ptResult' = processTransactions(transactions, returnTransactions)
  /\ ptPc' = "done"
  /\ UNCHANGED << svcVars, ledger, transactions, callVars, batchVars, xferVars >>

FoldNext == ProcessTransactions
SpecFold == FoldInit /\ [][FoldNext]_vars

(***************************************************************************)
(* The accumulation rules, stated per kind of transaction.                 *)
(***************************************************************************)
IsKind(tx, type, status) == tx.type = type /\ tx.status = status

RuleStep(acc, tx) ==
  LET a == parseFloat(tx.amount)
  IN  CASE IsKind(tx, "credit", "successful") ->
             [acc EXCEPT !.totalBalance = Add(@, a), !.availableBalance = Add(@, a)]
        [] IsKind(tx, "credit", "pending") ->
             [acc EXCEPT !.totalBalance = Add(@, a), !.pendingCredits = Add(@, a)]
        [] IsKind(tx, "debit", "successful") ->
             [acc EXCEPT !.totalBalance = Sub(@, a), !.availableBalance = Sub(@, a)]
        [] IsKind(tx, "debit", "pending") ->
             [acc EXCEPT !.totalBalance = Sub(@, a), !.pendingDebits = Add(@, a)]
        [] OTHER -> acc

AllZeros == [totalBalance |-> Num(0), availableBalance |-> Num(0),
             pendingCredits |-> Num(0), pendingDebits |-> Num(0)]

RECURSIVE RuleFold(_)
RuleFold(txs) ==
  IF txs = << >> THEN AllZeros
  ELSE RuleStep(RuleFold(SubSeq(txs, 1, Len(txs) - 1)), txs[Len(txs)])

Balances(r) ==
  [totalBalance |-> r.totalBalance, availableBalance |-> r.availableBalance,
   pendingCredits |-> r.pendingCredits, pendingDebits |-> r.pendingDebits]

\* the sum of the amounts of the transactions of txs of the given kind
RECURSIVE SumOfKind(_, _, _)
SumOfKind(txs, type, status) ==
  IF txs = << >> THEN Zero
  ELSE LET rest == SumOfKind(Tail(txs), type, status)
       IN  IF IsKind(Head(txs), type, status)
           THEN Add(parseFloat(Head(txs).amount), rest)
           ELSE rest

SuccessfulNet(txs) ==
  Sub(SumOfKind(txs, "credit", "successful"), SumOfKind(txs, "debit", "successful"))

RemoveAt(txs, i) == SubSeq(txs, 1, i - 1) \o SubSeq(txs, i + 1, Len(txs))

\* C1: processTransactions returns the fold, from all zeros, of the rules:
\* a successful credit adds its amount to totalBalance and availableBalance, a
\* pending credit to totalBalance and pendingCredits, a successful debit
\* subtracts it from totalBalance and availableBalance, a pending debit
\* subtracts it from totalBalance and adds it to pendingDebits, and a failed
\* transaction changes nothing.
C1_AccumulationRules ==
  ptPc = "done" => Balances(ptResult) = RuleFold(transactions)

C1_Witness ==
  /\ ptPc = "done"
  /\ Len(transactions) = 3
  /\ IsKind(transactions[1], "credit", "successful")
  /\ IsKind(transactions[2], "debit", "pending")
  /\ IsKind(transactions[3], "credit", "pending")
  /\ ptResult.totalBalance = Num(35)
  /\ ptResult.availableBalance = Num(20)
  /\ ptResult.pendingCredits = Num(20)
  /\ ptResult.pendingDebits = Num(5)

\* C3: the totalBalance that processTransactions returns is the sum of the
\* successful credits minus the sum of the successful debits; pending and
\* failed transactions contribute nothing to it.
C3_TotalIsSuccessfulOnly ==
  ptPc = "done" => ptResult.totalBalance = SuccessfulNet(transactions)

\* C4: the availableBalance that processTransactions returns is the sum of
\* the successful credits minus the sum of the successful debits, and the
\* list without any one of its pending or failed transactions has the same
\* availableBalance.
C4_AvailableExcludesPending ==
  ptPc = "done" =>
    /\ ptResult.availableBalance = SuccessfulNet(transactions)
    /\ \A i \in 1..Len(transactions) :
         transactions[i].status \in {"pending", "failed"} =>
           processTransactions(RemoveAt(transactions, i), retTx).availableBalance
             = ptResult.availableBalance

C4_Witness ==
  /\ ptPc = "done"
  /\ Len(transactions) = 3
  /\ IsKind(transactions[1], "credit", "successful")
  /\ IsKind(transactions[2], "credit", "pending")
  /\ IsKind(transactions[3], "debit", "successful")
  /\ ptResult.availableBalance = Num(15)
  /\ ptResult.totalBalance = Num(35)

(***************************************************************************)
(* The platform's transfer history endpoint, client.transfer.getHistory.   *)
(* It serves page `page` of the account's history for the symbol, `limit`  *)
(* items to a page, or fails.                                              *)
(***************************************************************************)
Accounts == {"acc1", "acc2"}
Symbols == {"BTC", "ETH"}
Keys == Accounts \X Symbols

HistoryLimit == 1000

ShortHistory ==
  << Tx("credit", "successful", <<"2">>), Tx("debit", "pending", <<"0", ".", "5">>) >>
MixedHistory ==
  << Tx("credit", "pending", <<"2">>), Tx("credit", "completed", <<"2">>),
     Tx("debit", "successful", <<"0", ".", "5">>) >>
\* one transaction more than a page holds
LongHistory == [i \in 1..(HistoryLimit + 1) |-> Tx("credit", "successful", <<"2">>)]

\* The ledgers of the model: acc1's BTC history is empty, short or longer than
\* a page, and every other history is one of the two short ones.
Ledgers ==
  { l \in [Keys -> { << >>, ShortHistory, MixedHistory, LongHistory }] :
      \A k \in Keys :
        IF k = <<"acc1", "BTC">>
        THEN l[k] \in { << >>, ShortHistory, LongHistory }
        ELSE l[k] \in { ShortHistory, MixedHistory } }

Min(a, b) == IF a < b THEN a ELSE b

PageOf(history, page, limit) ==
  SubSeq(history, (page - 1) * limit + 1, Min(page * limit, Len(history)))

PlatformError == "Request failed with status code 500"

\* what getHistory(params) may answer
getHistory(params) ==
  { [ok |-> TRUE, message |-> "",
     data |-> PageOf(ledger[<<params.accountIds[1], params.symbol>>],
                     params.page, params.limit)],
    [ok |-> FALSE, message |-> PlatformError, data |-> << >>] }

(***************************************************************************)
(* WalletBalanceUtil.calculateBalance                                      *)
(***************************************************************************)
historyParams(accountId, symbol) ==
  [accountIds |-> <<accountId>>, symbol |-> symbol, limit |-> HistoryLimit, page |-> 1]

NoBalance == processTransactions(<< >>, FALSE)

\* the promise calculateBalance returns, settled on the platform's answer
calculateBalance(returnTransactions, historyResult) ==
  IF historyResult.ok
  THEN [ok |-> TRUE, error |-> "",
        value |-> processTransactions(historyResult.data, returnTransactions)]
  ELSE [ok |-> FALSE, value |-> NoBalance,
        error |-> "Balance calculation failed: " \o historyResult.message]

CallRecord(accountId, symbol, returnTransactions, historyResult) ==
  LET settled == calculateBalance(returnTransactions, historyResult)
  IN  [done |-> TRUE, accountId |-> accountId, symbol |-> symbol,
       returnTransactions |-> returnTransactions,
       received |-> historyResult, ok |-> settled.ok,
       value |-> settled.value, error |-> settled.error]

\* calculateBalance is called: it builds historyParams, sends the request
\* through this.client and suspends at its await of getHistory, handing back
\* a pending promise.  Other calls run before the answer comes.  What the
\* call keeps across its await are its own parameters and locals; it assigns
\* no field of the instance.
CalculateBalance ==
  /\ BagCardinality(awaiting) < MaxCalls
  /\ \E key \in DOMAIN ledger, returnTransactions \in BOOLEAN :
       LET accountId == key[1]
           symbol == key[2]
       IN  awaiting' = awaiting (+) SetToBag({ [accountId |-> accountId, symbol |-> symbol,
                                                returnTransactions |-> returnTransactions,
                                                client |-> util.client,
                                                params |-> historyParams(accountId, symbol)] })
  /\ util' = util
  /\ UNCHANGED << svcVars, ledger, lastCall, prevCall, foldVars, batchVars, xferVars >>

\* The platform answers one of the suspended calls, in any order: the call
\* resumes after its await, folds the answer in processTransactions, whose
\* accumulators are locals of that one run, and its promise settles; no field
\* of the instance is assigned.
\* prevCall keeps one earlier settled call, with any number of calls after it.
HistoryAnswered ==
  \E c \in BagToSet(awaiting) :
    \E historyResult \in getHistory(c.params) :
      /\ awaiting' = awaiting (-) SetToBag({c})
      /\ lastCall' = CallRecord(c.accountId, c.symbol, c.returnTransactions, historyResult)
      /\ prevCall' \in (IF prevCall.done THEN {prevCall} ELSE {prevCall, lastCall})
      /\ util' = util
      /\ UNCHANGED << svcVars, ledger, foldVars, batchVars, xferVars >>

\* The ledgers calculateBalance is called on: the BTC histories, acc1's empty,
\* short or longer than a page, acc2's one of the two short ones.  The calls
\* are made on the accounts and symbols the ledger holds.
BalanceLedgers ==
  { l \in [Accounts \X {"BTC"} -> { << >>, ShortHistory, MixedHistory, LongHistory }] :
      /\ l[<<"acc1", "BTC">>] \in { << >>, ShortHistory, LongHistory }
      /\ l[<<"acc2", "BTC">>] \in { ShortHistory, MixedHistory } }

BalanceInit ==
  /\ ledger \in BalanceLedgers
  /\ CallsIdle /\ FoldIdle /\ BatchIdle /\ XferIdle /\ SvcIdle

BalanceNext == CalculateBalance \/ HistoryAnswered
SpecBalance == BalanceInit /\ [][BalanceNext]_vars

\* C5: calculateBalance(accountId, symbol) returns the balance of the whole
\* history the platform holds for that account and symbol, however many
\* transactions it contains.
C5_WholeHistoryFolded ==
  (lastCall.done /\ lastCall.ok) =>
    Balances(lastCall.value)
      = Balances(processTransactions(ledger[<<lastCall.accountId, lastCall.symbol>>], FALSE))

\* two settled calls that received the same history returned the same
\* balances, and the same result when returnTransactions agrees
SameHistorySameResult ==
  ( /\ prevCall.done /\ lastCall.done
    /\ prevCall.ok /\ lastCall.ok
    /\ prevCall.received.data = lastCall.received.data ) =>
      /\ Balances(prevCall.value) = Balances(lastCall.value)
      /\ prevCall.returnTransactions = lastCall.returnTransactions
            => prevCall.value = lastCall.value

\* what a call reads of the instance is this.client, and every call sent its
\* request through the client the constructor stored
ReadsClientOnly ==
  \A c \in BagToSet(awaiting) : c.client = WalletBalanceUtil(Pay100Client).client

WalletInfo(accountId, symbol) == [accountId |-> accountId, symbol |-> symbol]
InfoUniverse == { WalletInfo(a, s) : a \in Accounts, s \in Symbols }

\* the balance stored for an item whose calculateBalance threw
ZeroBalance ==
  [totalBalance |-> Zero, availableBalance |-> Zero, pendingCredits |-> Zero,
   pendingDebits |-> Zero, transactions |-> << >>]

\* balances[accountId] = balance
Assign(record, accountId, balance) ==
  [a \in DOMAIN record \cup {accountId} |->
     IF a = accountId THEN balance ELSE record[a]]

\* The callback without its try/catch: a failed fetch rejects it.
walletTaskNoCatch(i, historyResult) ==
  LET settled == calculateBalance(FALSE, historyResult)
  IN  IF settled.ok
      THEN [settled |-> "fulfilled",
            balances |-> Assign(balances, walletInfos[i].accountId, settled.value)]
      ELSE [settled |-> "rejected", balances |-> balances]

\* The callback storing under the account of the item whose turn it is in
\* settling order, not under its own.
walletTaskBySettlingOrder(i, historyResult) ==
  LET settled   == calculateBalance(FALSE, historyResult)
      accountId == walletInfos[Len(settledOrder) + 1].accountId
  IN  [settled |-> "fulfilled",
       balances |-> Assign(balances, accountId,
                           IF settled.ok THEN settled.value ELSE ZeroBalance)]

\* the rest of item i's callback, from the settling of its calculateBalance
walletTask(i, historyResult) ==
  LET accountId == walletInfos[i].accountId
      settled   == calculateBalance(FALSE, historyResult)
  IN  IF settled.ok
      THEN [settled |-> "fulfilled",
            balances |-> Assign(balances, accountId, settled.value)]
      ELSE [settled |-> "fulfilled",
            balances |-> Assign(balances, accountId, ZeroBalance)]

CalculateMultipleBalances ==
  /\ batchPc = "idle"
  /\ \E infos \in SeqsUpTo(InfoUniverse, MaxInfos) :
       /\ walletInfos' = infos
       /\ task' = [i \in 1..Len(infos) |-> "fetching"]
  /\ settledOrder' = << >>
  /\ balances' = << >>
  /\ batchPc' = "running"
  /\ UNCHANGED << svcVars, ledger, foldVars, callVars, xferVars >>

FetchSettles ==
  /\ batchPc \in {"running", "rejected"}
  /\ \E i \in 1..Len(walletInfos) :
       /\ task[i] = "fetching"
       /\ \E historyResult \in
              getHistory(historyParams(walletInfos[i].accountId, walletInfos[i].symbol)) :
            LET after == walletTask(i, historyResult)
            IN  /\ task' = [task EXCEPT ![i] = IF historyResult.ok THEN "ok" ELSE "failed"]
                /\ balances' = after.balances
                /\ batchPc' = IF after.settled = "rejected" THEN "rejected" ELSE batchPc
       /\ settledOrder' = Append(settledOrder, i)
  /\ UNCHANGED << svcVars, ledger, walletInfos, foldVars, callVars, xferVars >>

\* Promise.all resolves once every callback has, and balances is returned
BatchResolves ==
  /\ batchPc = "running"
  /\ \A i \in 1..Len(walletInfos) : task[i] # "fetching"
  /\ batchPc' = "resolved"
  /\ UNCHANGED << svcVars, ledger, walletInfos, task, settledOrder, balances,
                  foldVars, callVars, xferVars >>

BatchInit ==
  /\ ledger \in Ledgers
  /\ BatchIdle /\ CallsIdle /\ FoldIdle /\ XferIdle /\ SvcIdle

BatchNext == CalculateMultipleBalances \/ FetchSettles \/ BatchResolves
SpecBatch == BatchInit /\ [][BatchNext]_vars

\* what calculateBalance returns for the item's account and symbol alone
BalanceAlone(info) ==
  processTransactions(PageOf(ledger[<<info.accountId, info.symbol>>], 1, HistoryLimit), FALSE)

\* what item i's own fetch amounts to
OwnBalance(i) ==
  IF task[i] = "ok" THEN BalanceAlone(walletInfos[i]) ELSE ZeroBalance

DistinctAccounts ==
  \A i, j \in 1..Len(walletInfos) :
    walletInfos[i].accountId = walletInfos[j].accountId => i = j

Settled == \A i \in 1..Len(walletInfos) : task[i] # "fetching"

\* what the settling of one fetch does to the record: it stores the item's
\* own balance, all zeros if the fetch failed, under the item's account, leaves
\* every other entry as it was, and does not reject the call
SettleIsolated ==
  \A i \in 1..Len(walletInfos) :
    (task[i] = "fetching" /\ task'[i] # "fetching") =>
      LET accountId == walletInfos[i].accountId
      IN  /\ batchPc' # "rejected"
          /\ DOMAIN balances' = DOMAIN balances \cup {accountId}
          /\ task'[i] = "failed" => balances'[accountId] = ZeroBalance
          /\ task'[i] = "ok" => balances'[accountId] = BalanceAlone(walletInfos[i])
          /\ \A other \in DOMAIN balances \ {accountId} :
               balances'[other] = balances[other]

\* C2: a failed history fetch never fails the batch and never changes another
\* account's entry: the call resolves, the failing account is given the
\* all-zero balance, and an account whose fetch succeeded is given what
\* calculateBalance returns for that account alone.
C2_ErrorIsolation ==
  /\ [](batchPc # "rejected")
  /\ []((batchPc = "running" /\ Settled) => ENABLED BatchResolves)
  /\ [][SettleIsolated]_vars

C2_Witness ==
  /\ batchPc = "resolved"
  /\ Len(walletInfos) = 2
  /\ DistinctAccounts
  /\ task[1] = "failed" /\ task[2] = "ok"
  /\ settledOrder = <<1, 2>>
  /\ balances[walletInfos[1].accountId] = ZeroBalance
  /\ balances[walletInfos[2].accountId].totalBalance # Zero

OrderIndependence ==
  batchPc = "resolved" =>
    /\ DOMAIN balances = { walletInfos[i].accountId : i \in 1..Len(walletInfos) }
    /\ \A i \in 1..Len(walletInfos) :
         balances[walletInfos[i].accountId] = OwnBalance(i)

\* C6 as claimed: for every list of wallet infos and every order in which the
\* fetches settle, the returned record holds for each input pair the balance
\* of that pair's own history.
C6_OrderIndependentAnyList == OrderIndependence

\* C6 as amended: the same, for wallet infos whose accountIds are pairwise
\* distinct.
C6_OrderIndependent == DistinctAccounts => OrderIndependence

C6_Witness ==
  /\ batchPc = "resolved"
  /\ Len(walletInfos) = 2
  /\ DistinctAccounts
  /\ settledOrder = <<2, 1>>
  /\ task[1] = "ok" /\ task[2] = "ok"
  /\ balances[walletInfos[1].accountId] # balances[walletInfos[2].accountId]

(***************************************************************************)
(* The UserWallet collection and WalletService.getUserWalletBySymbol.      *)
(***************************************************************************)
Users == {"u1", "u2"}
Networks == {"BSC", "ETHEREUM"}

Wallet(user, symbol, network, address, sourceAccountId) ==
  [found |-> TRUE, user |-> user, symbol |-> symbol, network |-> network,
   address |-> address, sourceAccountId |-> sourceAccountId]

\* the wallets a store of the model may hold: u2 has BTC wallets on two networks
WalletUniverse ==
  { Wallet("u1", "BTC", "BSC", "0xA1", "acc1"),
    Wallet("u2", "BTC", "BSC", "0xB1", "acc2"),
    Wallet("u2", "BTC", "ETHEREUM", "0xB2", "acc3") }

\* String.prototype.toUpperCase on the symbols of the model
toUpperCase(symbol) ==
  CASE symbol = "btc" -> "BTC"
    [] symbol = "eth" -> "ETH"
    [] OTHER -> symbol

\* The documents findOne({user, symbol: symbol.toUpperCase(), network}) may
\* return.  The three keys are always in the filter; a key whose value is
\* undefined reaches the database as null, which only a document without
\* that field matches.  Every wallet of the model has a user; the wallets
\* createUserWallets stores have a network.
getUserWalletBySymbol(userId, symbol, network) ==
  { w \in store :
      /\ w.user = userId
      /\ w.symbol = toUpperCase(symbol)
      /\ w.network = network }

(***************************************************************************)
(* TransferService.transferAssets                                          *)
(***************************************************************************)
\* JavaScript truthiness of an optional string
Truthy(x) == x # Undefined /\ x # Null /\ x # ""

DigitChar(d) ==
  CASE d = 0 -> "0" [] d = 1 -> "1" [] d = 2 -> "2" [] d = 3 -> "3" [] d = 4 -> "4"
    [] d = 5 -> "5" [] d = 6 -> "6" [] d = 7 -> "7" [] d = 8 -> "8" [] d = 9 -> "9"

RECURSIVE NatToString(_)
NatToString(n) ==
  IF n < 10 THEN DigitChar(n) ELSE NatToString(n \div 10) \o DigitChar(n % 10)

\* Number.prototype.toString of a number kept in tenths
NumberToString(n) ==
  IF n.nan THEN "NaN"
  ELSE LET mag == IF n.v < 0 THEN 0 - n.v ELSE n.v
       IN  (IF n.v < 0 THEN "-" ELSE "")
             \o NatToString(mag \div 10)
             \o (IF mag % 10 = 0 THEN "" ELSE "." \o DigitChar(mag % 10))

TransferAmounts == { Num(10), Num(25), Num(-10) }

Requests ==
  [ fromUserId  : Users,
    toUserId    : Users \cup {Undefined},
    toAddress   : {Undefined, "", "0xEXT"},
    amount      : TransferAmounts,
    symbol      : {"btc", "BTC", "ETH"},
    network     : Networks,
    description : {Undefined, Null, "rent"} ]

\* description = "Asset transfer": the parameter's default stands in for a
\* description left out (undefined); null, which the nullable input field
\* allows, is passed on as null
descriptionOf(r) == IF r.description = Undefined THEN "Asset transfer" ELSE r.description

\* which branch of "Determine recipient wallet address" the request takes
recipientBranch(r) ==
  IF Truthy(r.toAddress) /\ Truthy(r.toUserId) THEN "address"
  ELSE IF Truthy(r.toAddress) /\ ~Truthy(r.toUserId) THEN "address"
  ELSE IF ~Truthy(r.toAddress) /\ Truthy(r.toUserId) THEN "user"
  ELSE "none"

\* The address check left out.
hasWalletAddressUnchecked(address) == TRUE

\* if (!walletAddress) throw ...: whether the check lets the address pass
hasWalletAddress(address) == Truthy(address)

transferData(r, sender, address) ==
  [amount      |-> NumberToString(r.amount),
   symbol      |-> toUpperCase(r.symbol),
   to          |-> address,
   description |-> descriptionOf(r),
   from        |-> sender.address]

FailurePrefix == "Failed to transfer assets: "

Rejected(message) ==
  [status |-> "rejected", message |-> FailurePrefix \o message, toWallet |-> NoWallet]
Resolved(toWallet) ==
  [status |-> "resolved", message |-> "", toWallet |-> toWallet]

senderMissing(r) ==
  "Sender doesn't have a " \o r.symbol \o " wallet with network " \o r.network
recipientMissing(r) == "Recipient doesn't have a " \o r.symbol \o " wallet"
noAddress == "No valid wallet address provided"

\* The rest of the try block once the destination is known: the address
\* check, then the call of executeTransfer, whose answer is awaited.
CheckAndExecute(sender, address) ==
  IF hasWalletAddress(address)
  THEN /\ executed' = Append(executed, transferData(req, sender, address))
       /\ xferPc' = "awaitTransfer"
       /\ outcome' = outcome
  ELSE /\ executed' = executed
       /\ xferPc' = "settled"
       /\ outcome' = Rejected(noAddress)

\* the call: the sender's wallet is asked for
TransferAssets ==
  /\ xferPc = "idle"
  /\ \E r \in Requests : req' = r
  /\ xferPc' = "findSender"
  /\ fromWallet' = NoWallet
  /\ walletAddress' = Undefined
  /\ executed' = << >>
  /\ outcome' = Undefined
  /\ UNCHANGED << svcVars, ledger, store, foldVars, callVars, batchVars >>

\* the sender lookup answers: no wallet throws, a wallet leads to the
\* recipient's branch
SenderFound ==
  /\ xferPc = "findSender"
  /\ LET found == getUserWalletBySymbol(req.fromUserId, req.symbol, req.network)
     IN  IF found = {}
         THEN /\ outcome' = Rejected(senderMissing(req))
              /\ xferPc' = "settled"
              /\ UNCHANGED << fromWallet, walletAddress, executed >>
         ELSE \E w \in found :
                /\ fromWallet' = w
                /\ CASE recipientBranch(req) = "address" ->
                          /\ walletAddress' = req.toAddress
                          /\ CheckAndExecute(w, req.toAddress)
                     [] recipientBranch(req) = "user" ->
                          /\ xferPc' = "findRecipient"
                          /\ UNCHANGED << walletAddress, executed, outcome >>
                     [] OTHER ->
                          /\ walletAddress' = Undefined
                          /\ CheckAndExecute(w, Undefined)
  /\ UNCHANGED << svcVars, ledger, store, req, foldVars, callVars, batchVars >>

\* the recipient lookup answers
RecipientFound ==
  /\ xferPc = "findRecipient"
  /\ LET found == getUserWalletBySymbol(req.toUserId, req.symbol, Undefined)
     IN  IF found = {}
         THEN /\ outcome' = Rejected(recipientMissing(req))
              /\ xferPc' = "settled"
              /\ UNCHANGED << walletAddress, executed >>
         ELSE \E toWallet \in found :
                /\ walletAddress' = toWallet.address
                /\ CheckAndExecute(fromWallet, toWallet.address)
  /\ fromWallet' = fromWallet
  /\ UNCHANGED << svcVars, ledger, store, req, foldVars, callVars, batchVars >>

\* executeTransfer answers: the platform's error is rethrown with the prefix,
\* its receipt is returned, after one more lookup when no address was given;
\* then that lookup of the returned toWallet answers
TransferSettles ==
  /\ \/ /\ xferPc = "awaitTransfer"
        /\ \/ /\ outcome' = Rejected(PlatformError)
              /\ xferPc' = "settled"
           \/ /\ Truthy(req.toAddress)
              /\ outcome' = Resolved([found |-> TRUE, address |-> req.toAddress])
              /\ xferPc' = "settled"
           \/ /\ ~Truthy(req.toAddress)
              /\ xferPc' = "findToWallet"
              /\ outcome' = outcome
     \/ /\ xferPc = "findToWallet"
        /\ LET found == getUserWalletBySymbol(req.toUserId, req.symbol, Undefined)
           IN  \/ found = {} /\ outcome' = Resolved(NoWallet)
               \/ \E w \in found : outcome' = Resolved(w)
        /\ xferPc' = "settled"
  /\ UNCHANGED << svcVars, ledger, store, req, fromWallet, walletAddress, executed,
                  foldVars, callVars, batchVars >>

\* Documents of the collection that createUserWallets did not store: the
\* schema requires neither network nor account.address, and such a document
\* has no network, u1's no address either.
LegacyWallets ==
  { Wallet("u2", "BTC", Undefined, "0xB0", "acc2"),
    Wallet("u1", "BTC", Undefined, Undefined, "acc1") }

WalletKeys == {"acc1", "acc2", "acc3"} \X Symbols

\* the sender accounts' histories: acc1's is empty or one of the short ones
TransferLedgers ==
  { [k \in WalletKeys |-> IF k[1] = "acc1" THEN h ELSE ShortHistory] :
      h \in { << >>, ShortHistory, MixedHistory } }

TransferInit ==
  /\ ledger \in TransferLedgers
  /\ store \in SUBSET (WalletUniverse \cup LegacyWallets)
  /\ req = Undefined /\ xferPc = "idle" /\ fromWallet = NoWallet
  /\ walletAddress = Undefined /\ executed = << >> /\ outcome = Undefined
  /\ FoldIdle /\ CallsIdle /\ BatchIdle /\ SvcIdle

TransferNext ==
  TransferAssets \/ SenderFound \/ RecipientFound \/ TransferSettles
SpecTransfer == TransferInit /\ [][TransferNext]_vars

\* the store's wallets of the sender for the request's symbol and network
SenderWallets ==
  { w \in store : /\ w.user = req.fromUserId
                  /\ w.symbol = toUpperCase(req.symbol)
                  /\ w.network = req.network }

\* the store's wallets of the recipient user for the request's symbol
RecipientWallets ==
  { w \in store : w.user = req.toUserId /\ w.symbol = toUpperCase(req.symbol) }

AddressGiven == Truthy(req.toAddress)
OnlyUserGiven == ~Truthy(req.toAddress) /\ Truthy(req.toUserId)
NeitherGiven == ~Truthy(req.toAddress) /\ ~Truthy(req.toUserId)

\* C8: once the sender's wallet is found, a transfer with toAddress given
\* (with or without toUserId) is executed to toAddress; with only toUserId
\* given it is executed to the account address of a wallet of that user for
\* the symbol; with neither given the call fails with 'No valid wallet
\* address provided'.
C8_Destination ==
  (xferPc = "settled" /\ SenderWallets # {}) =>
    /\ AddressGiven => (Len(executed) = 1 /\ executed[1].to = req.toAddress)
    /\ (OnlyUserGiven /\ RecipientWallets # {}) =>
         /\ Len(executed) = 1
         /\ executed[1].to \in { w.address : w \in RecipientWallets }
    /\ NeitherGiven =>
         /\ executed = << >>
         /\ outcome.status = "rejected"
         /\ outcome.message = "Failed to transfer assets: No valid wallet address provided"

\* the messages transferAssets can wrap
WrappedMessages ==
  { "Failed to transfer assets: " \o m :
      m \in { senderMissing(req), recipientMissing(req), noAddress, PlatformError } }

\* C9: transferAssets calls executeTransfer at most once per invocation, and
\* only after the sender's wallet for the symbol and network was found and a
\* non-empty destination was resolved; when the sender wallet is missing, the
\* recipient user has no wallet for the symbol, or no destination is given,
\* no transfer is executed and the call rejects with an error prefixed
\* 'Failed to transfer assets: '.
C9_ExecuteOnlyWhenResolved ==
  /\ Len(executed) <= 1
  /\ Len(executed) = 1 =>
       /\ fromWallet \in SenderWallets
       /\ executed[1].from = fromWallet.address
       /\ Truthy(walletAddress)
       /\ executed[1].to = walletAddress
  /\ ( /\ xferPc = "settled"
       /\ \/ SenderWallets = {}
          \/ OnlyUserGiven /\ RecipientWallets = {}
          \/ NeitherGiven ) =>
       /\ executed = << >>
       /\ outcome.status = "rejected"
       /\ outcome.message \in WrappedMessages

\* the recipient's wallet was looked up and found, and the transfer went to
\* its address, with the null description passed on
C9_Witness ==
  /\ xferPc = "settled"
  /\ OnlyUserGiven
  /\ req.description = Null
  /\ Len(executed) = 1
  /\ fromWallet \in SenderWallets
  /\ executed[1].to = "0xB0"
  /\ executed[1].description = Null
  /\ outcome.status = "resolved"
  /\ outcome.toWallet.address = "0xB0"

\* the sender wallet's available balance, as calculateBalance computes it
SenderAvailable ==
  calculateBalance(FALSE,
    [ok |-> TRUE, message |-> "",
     data |-> PageOf(ledger[<<fromWallet.sourceAccountId, fromWallet.symbol>>],
                     1, HistoryLimit)]).value.availableBalance

InvalidOrUnfunded ==
  \/ req.amount.nan
  \/ req.amount.v <= 0
  \/ Gt(req.amount, SenderAvailable)

\* C10: a transferAssets request with invalid transfer parameters, or with an
\* amount larger than the sender wallet's available balance, is answered with
\* an error and no transfer is executed.
C10_InvalidOrUnfundedRejected ==
  (fromWallet.found /\ InvalidOrUnfunded) =>
    /\ executed = << >>
    /\ xferPc = "settled" => outcome.status = "rejected"

(***************************************************************************)
(* UserWalletFilters, and the paginated find of the UserWallet collection. *)
(***************************************************************************)
\* a string the ObjectId constructor and ObjectId.isValid refuse
InvalidId == "not-an-object-id"

isValidObjectId(id) == Truthy(id) /\ id \in Users

\* one key of a FilterQuery: absent, an equality, or {$in: [...]}
NoCond == [kind |-> "none"]
Eq(value) == [kind |-> "eq", value |-> value]
In(values) == [kind |-> "in", values |-> values]

Elements(list) == { list[i] : i \in DOMAIN list }

\* an optional array: absent, or the array given (the empty one included)
NotGiven == [given |-> FALSE]
Given(list) == [given |-> TRUE, list |-> list]

\* the filter options a caller passes: userId is a string or Undefined,
\* symbols and networks are optional arrays
FilterOptions(userId, symbols, networks) ==
  [userId |-> userId, symbols |-> symbols, networks |-> networks]

\* The keys the callers of the model set: userId, symbols, networks.  An
\* array, the empty one included, is truthy.
UserWalletFilters(filters) ==
  [ user    |-> IF Truthy(filters.userId)
                THEN Eq(IF isValidObjectId(filters.userId)
                        THEN filters.userId ELSE Undefined)
                ELSE NoCond,
    symbol  |-> IF filters.symbols.given
                THEN In(Elements(filters.symbols.list)) ELSE NoCond,
    network |-> IF filters.networks.given
                THEN In(Elements(filters.networks.list)) ELSE NoCond ]

\* a key that is absent is no condition; a key whose value is undefined
\* reaches the database as null, which only a document without that field
\* matches
Matches(cond, value) ==
  CASE cond.kind = "none" -> TRUE
    [] cond.kind = "eq"   -> value = cond.value
    [] cond.kind = "in"   -> value \in cond.values

find(filter) ==
  { w \in store : /\ Matches(filter.user, w.user)
                  /\ Matches(filter.symbol, w.symbol)
                  /\ Matches(filter.network, w.network) }

\* A pagination object {page, limit}; 0 stands for a key that is absent.
\* NoPagination is the argument left out, for which the parameter's default
\* stands in.
NoPagination == [given |-> FALSE]
DefaultPagination == [page |-> 1, limit |-> 10]

\* type Meta
Meta(page, limit, total) ==
  LET pages == (total + limit - 1) \div limit
  IN  [page |-> page, limit |-> limit, pages |-> pages, total |-> total,
       hasNextPage |-> page < pages, hasPrevPage |-> page > 1]

\* paginateCollection(UserWallet, {page, limit}, {filter}): the {data, meta}
\* it may answer, data the documents of page `page` of the matches, `limit`
\* to a page; an absent page is page 1 and an absent limit is 10
paginateCollection(pagination, filter) ==
  LET matches == find(filter)
      page    == IF pagination.page = 0 THEN 1 ELSE pagination.page
      limit   == IF pagination.limit = 0 THEN 10 ELSE pagination.limit
      total   == Cardinality(matches)
      before  == (page - 1) * limit
      size    == IF before >= total THEN 0 ELSE Min(limit, total - before)
  IN  { [data |-> data, meta |-> Meta(page, limit, total)] :
          data \in { d \in SUBSET matches : Cardinality(d) = size } }

\* getFilteredUserWallets({filters, pagination}); pagination defaults to
\* {page: 1, limit: 10}, and its page and limit are handed on
getFilteredUserWallets(filters, pagination) ==
  LET given == IF pagination = NoPagination THEN DefaultPagination ELSE pagination
  IN  paginateCollection([page |-> given.page, limit |-> given.limit],
                         UserWalletFilters(filters))

(***************************************************************************)
(* WalletService.createUserWallets and saveWalletToDb                      *)
(***************************************************************************)
MaxAccounts == 2   \* most accounts the platform returns for one subaccount

DefaultSymbols == <<"BTC", "ETH", "USDT", "PAY">>
DefaultNetworks == <<"BSC">>

SymbolLists == { << >>, <<"BTC">>, <<"ETH">>, <<"BTC", "ETH">> }
NetworkLists == { <<"BSC">>, <<"ETHEREUM">>, <<"BSC", "ETHEREUM">> }

\* the arguments of a call, the defaults of the parameters applied
CreateArgs ==
  [ userId   : Users \cup {InvalidId},
    symbols  : SymbolLists \cup {DefaultSymbols},
    networks : NetworkLists ]

\* an account of the platform's answer; id is its _id
Account(id, symbol, network, address) ==
  [id |-> id, symbol |-> symbol, network |-> network, address |-> address]

\* the accounts a new subaccount may come with; what the platform creates for
\* the requested symbols and networks is its own business
NewAccounts ==
  { Account("acc7", "BTC", "BSC", "0xN1"),
    Account("acc8", "ETH", "ETHEREUM", "0xN2"),
    Account("acc9", "USDT", "BSC", "0xN3") }

RECURSIVE DistinctSeqs(_, _)
DistinctSeqs(S, n) ==
  IF n = 0 THEN { << >> }
  ELSE LET shorter == DistinctSeqs(S, n - 1)
       IN  shorter \cup
           UNION { { Append(s, x) : x \in S \ Elements(s) } : s \in shorter }

AccountLists == DistinctSeqs(NewAccounts, MaxAccounts)

subaccountData(args) ==
  [symbols |-> args.symbols, networks |-> args.networks,
   metadata |-> [userId |-> args.userId]]

CreateFailurePrefix == "Failed to create user wallets: "

\* Array.prototype.toString, of an array of strings: the items joined by ","
RECURSIVE ArrayToString(_)
ArrayToString(list) ==
  IF list = << >> THEN ""
  ELSE IF Len(list) = 1 THEN list[1]
  ELSE list[1] \o "," \o ArrayToString(Tail(list))

\* the arrays a page of documents may come as
ArraysOf(data) == { list \in DistinctSeqs(data, Cardinality(data)) :
                     Len(list) = Cardinality(data) }

\* the message thrown on the wallets found
DuplicateWallets(existingWallets) ==
  "User already has wallets with the same symbols and networks: "
    \o ArrayToString([i \in DOMAIN existingWallets |-> existingWallets[i].symbol])
    \o ", "
    \o ArrayToString([i \in DOMAIN existingWallets |-> existingWallets[i].network])

Failure(message) == [status |-> "rejected", message |-> message, value |-> << >>]
Success(value) == [status |-> "resolved", message |-> "", value |-> value]

WalletRead(filter) == [kind |-> "walletRead", detail |-> filter]
WalletWrite(doc) == [kind |-> "walletWrite", detail |-> doc]
PlatformCall(api, data) == [kind |-> "platform", detail |-> [api |-> api, data |-> data]]

InvalidObjectId == "input must be a 24 character hex string, 12 byte Uint8Array, or an integer"
DbError == "connection to the database lost"

existingFilters(args) ==
  FilterOptions(args.userId, Given(args.symbols), Given(args.networks))

\* existingWallets.data.length > 0
hasExistingWalletsNever(data) == FALSE

hasExistingWallets(data) == Cardinality(data) > 0

\* the document saveWalletToDb builds from an account
walletDataAddressAsSource(userId, account) ==
  Wallet(userId, account.symbol, account.network, account.address, account.address)

walletData(userId, account) ==
  Wallet(userId, account.symbol, account.network, account.address, account.id)

\* the saved documents, in the order of the accounts
savedWallets(userId, accounts) ==
  [i \in DOMAIN accounts |-> walletData(userId, accounts[i])]

\* the call: the user's wallets for the symbols and networks are asked for
CreateUserWallets ==
  /\ callPc = "idle"
  /\ \E args \in CreateArgs :
       /\ call' = [op |-> "createUserWallets", args |-> args]
       /\ effects' = << WalletRead(UserWalletFilters(existingFilters(args))) >>
  /\ callPc' = "findExisting"
  /\ storeAtCall' = store
  /\ locals' = NoLocals
  /\ callResult' = Undefined
  /\ UNCHANGED << userDocs, ctxUser, rates, ledger, foldVars, callVars,
                  batchVars, xferVars >>

\* the query answers: existing wallets throw, none lets the subaccount be
\* asked of the platform
ExistingWalletsFound ==
  /\ callPc = "findExisting"
  /\ \E found \in getFilteredUserWallets(existingFilters(call.args), NoPagination) :
       IF hasExistingWallets(found.data)
       THEN /\ \E existingWallets \in ArraysOf(found.data) :
                 callResult' =
                   Failure(CreateFailurePrefix \o DuplicateWallets(existingWallets))
            /\ callPc' = "settled"
            /\ effects' = effects
       ELSE /\ effects' = Append(effects,
                 PlatformCall("subaccounts.create", subaccountData(call.args)))
            /\ callPc' = "createSubaccount"
            /\ callResult' = callResult
  /\ UNCHANGED << userDocs, ctxUser, call, locals, storeAtCall, rates,
                  ledger, foldVars, callVars, batchVars, xferVars >>

\* the platform answers: its error is rethrown; its accounts are handed to
\* saveWalletToDb, all at once, which throws on a userId that is no ObjectId
SubaccountsCreated ==
  /\ callPc = "createSubaccount"
  /\ \/ /\ callResult' = Failure(CreateFailurePrefix \o PlatformError)
        /\ callPc' = "settled"
        /\ locals' = locals
     \/ \E accounts \in AccountLists :
          /\ locals' = [accounts |-> accounts,
                        saved |-> [i \in DOMAIN accounts |->
                                     IF isValidObjectId(call.args.userId)
                                     THEN "pending" ELSE "failed"]]
          /\ IF accounts = << >>
             THEN callResult' = Success(<< >>) /\ callPc' = "settled"
             ELSE IF ~isValidObjectId(call.args.userId)
             THEN /\ callResult' = Failure(CreateFailurePrefix \o InvalidObjectId)
                  /\ callPc' = "settled"
             ELSE callResult' = callResult /\ callPc' = "saving"
  /\ UNCHANGED << userDocs, ctxUser, call, effects, storeAtCall, rates,
                  ledger, foldVars, callVars, batchVars, xferVars >>

\* How Promise.all takes the settling of one saveWalletToDb: it rejects with
\* the first failure and lets the other saves run on; it resolves when every
\* saveWalletToDb has resolved.
PromiseAllTakes(saved, failed) ==
  IF callPc = "settled"
  THEN callResult' = callResult /\ callPc' = callPc
  ELSE IF failed
  THEN /\ callResult' = Failure(CreateFailurePrefix \o DbError)
       /\ callPc' = "settled"
  ELSE IF \A j \in DOMAIN saved : saved[j] = "saved"
  THEN /\ callResult' = Success(savedWallets(call.args.userId, locals.accounts))
       /\ callPc' = "settled"
  ELSE callResult' = callResult /\ callPc' = callPc

\* wallet.save() of one account settles: the document is stored and its
\* populate("user") is sent, or the save fails.
WalletSaved(i) ==
  /\ callPc \in {"saving", "settled"}
  /\ call.op = "createUserWallets"
  /\ i \in DOMAIN locals.saved
  /\ locals.saved[i] = "pending"
  /\ LET doc == walletData(call.args.userId, locals.accounts[i])
     IN  \/ /\ locals' = [locals EXCEPT !.saved[i] = "populating"]
            /\ store' = store \cup {doc}
            /\ effects' = Append(effects, WalletWrite(doc))
            /\ PromiseAllTakes(locals'.saved, FALSE)
         \/ /\ locals' = [locals EXCEPT !.saved[i] = "failed"]
            /\ store' = store /\ effects' = effects
            /\ PromiseAllTakes(locals'.saved, TRUE)
  /\ UNCHANGED << userDocs, ctxUser, call, storeAtCall, rates, ledger,
                  foldVars, callVars, batchVars, req, xferPc, fromWallet,
                  walletAddress, executed, outcome >>

\* populate("user") of one stored document settles: saveWalletToDb resolves
\* with the document, or rejects.
WalletPopulated(i) ==
  /\ callPc \in {"saving", "settled"}
  /\ call.op = "createUserWallets"
  /\ i \in DOMAIN locals.saved
  /\ locals.saved[i] = "populating"
  /\ \/ /\ locals' = [locals EXCEPT !.saved[i] = "saved"]
        /\ PromiseAllTakes(locals'.saved, FALSE)
     \/ /\ locals' = [locals EXCEPT !.saved[i] = "failed"]
        /\ PromiseAllTakes(locals'.saved, TRUE)
  /\ UNCHANGED << userDocs, ctxUser, call, effects, storeAtCall, rates, ledger,
                  foldVars, callVars, batchVars, xferVars >>

CreateInit ==
  /\ store \in SUBSET WalletUniverse
  /\ req = Undefined /\ xferPc = "idle" /\ fromWallet = NoWallet
  /\ walletAddress = Undefined /\ executed = << >> /\ outcome = Undefined
  /\ userDocs = {} /\ ctxUser = Undefined /\ call = Undefined /\ callPc = "idle"
  /\ locals = NoLocals /\ effects = << >> /\ callResult = Undefined
  /\ storeAtCall = store /\ rates = NoRates
  /\ LedgerIdle /\ FoldIdle /\ CallsIdle /\ BatchIdle

CreateNext ==
  \/ CreateUserWallets
  \/ ExistingWalletsFound
  \/ SubaccountsCreated
  \/ \E i \in 1..MaxAccounts : WalletSaved(i)
  \/ \E i \in 1..MaxAccounts : WalletPopulated(i)

SpecCreate == CreateInit /\ [][CreateNext]_vars

\* the wallets of the requesting user, as the call found the collection, whose
\* symbol and network are among those requested
HeldAtCall ==
  { w \in storeAtCall : /\ w.user = call.args.userId
                        /\ w.symbol \in Elements(call.args.symbols)
                        /\ w.network \in Elements(call.args.networks) }

PlatformCalls == { i \in DOMAIN effects : effects[i].kind = "platform" }

\* C11: when the store holds a wallet of the user whose symbol is among the
\* requested symbols and whose network is among the requested networks,
\* createUserWallets rejects, never calls the platform's subaccount creation
\* and adds no wallet record.
C11_DuplicateRejected ==
  (callPc # "idle" /\ HeldAtCall # {}) =>
    /\ callPc \in {"findExisting", "settled"}
    /\ callPc = "settled" => callResult.status = "rejected"
    /\ PlatformCalls = {}
    /\ store = storeAtCall

C11_Witness ==
  /\ callPc = "settled"
  /\ HeldAtCall # {}
  /\ call.args.symbols = <<"BTC", "ETH">>
  /\ call.args.networks = <<"BSC", "ETHEREUM">>
  /\ callResult.status = "rejected"
  /\ callResult.message =
       "Failed to create user wallets: User already has wallets with the same symbols and networks: BTC,BTC, BSC,ETHEREUM"
  /\ PlatformCalls = {}

\* C12: after a createUserWallets call that returned, the store holds exactly
\* one new record for each account of the platform's answer, with user the
\* requesting userId and sourceAccountId the account's platform id, and the
\* list returned consists of exactly those records, in the accounts' order.
C12_MirrorRecords ==
  (callPc = "settled" /\ callResult.status = "resolved") =>
    LET accounts == locals.accounts
        returned == callResult.value
    IN  /\ Len(returned) = Len(accounts)
        /\ \A i \in DOMAIN accounts :
             /\ returned[i].user = call.args.userId
             /\ returned[i].sourceAccountId = accounts[i].id
             /\ returned[i].symbol = accounts[i].symbol
             /\ returned[i] \in store \ storeAtCall
        /\ store \ storeAtCall = Elements(returned)
        /\ storeAtCall \subseteq store
        /\ Cardinality(store \ storeAtCall) = Len(accounts)

C12_Witness ==
  /\ callPc = "settled" /\ callResult.status = "resolved"
  /\ Len(locals.accounts) = 2
  /\ storeAtCall # {}
  /\ call.args.userId = "u1"
  /\ locals.accounts[1].id = "acc8"
  /\ callResult.value[1].sourceAccountId = "acc8"
  /\ callResult.value[2].sourceAccountId = "acc7"

(***************************************************************************)
(* The getTransferHistory query and TransferService.getTransferHistory     *)
(***************************************************************************)
\* x || fallback, for numbers: 0 also stands for an absent key
OrNumber(x, fallback) == IF x = 0 THEN fallback ELSE x

\* x || [], for an optional array
OrEmptyList(x) == IF x.given THEN x.list ELSE << >>

UserNotFound == "User not found"
HistoryFailurePrefix == "Failed to get transfer history: "

\* the arguments of the query; symbols and pagination are optional
HistoryArgs ==
  [ symbols    : { Given(list) : list \in SymbolLists } \cup {NotGiven},
    pagination : { [page |-> 0, limit |-> 0], [page |-> 2, limit |-> 5] } ]

\* the params the resolver hands to the service
historyQueryParams(args) ==
  [ page    |-> OrNumber(args.pagination.page, 1),
    limit   |-> OrNumber(args.pagination.limit, 10),
    symbols |-> Given(OrEmptyList(args.symbols)) ]

\* the filters the service asks the user's wallets with: the symbols key is
\* set whenever params.symbols is truthy, and every array is
historyFilters(userId, params) ==
  FilterOptions(userId, params.symbols, NotGiven)

\* the historyParams sent to the platform; ...params comes last
transferHistoryParams(params, userWallets) ==
  [ page       |-> OrNumber(params.page, 1),
    limit      |-> OrNumber(params.limit, 10),
    addresses  |-> { w.address : w \in userWallets.data },
    accountIds |-> { w.sourceAccountId : w \in userWallets.data },
    symbols    |-> params.symbols ]

\* an item of the platform's transfer history; oid is its _id
TransferItem(hex, accountId) == [oid |-> [hex |-> hex], accountId |-> accountId]

\* the pages the platform may answer with
TransferPages ==
  { << >>,
    << TransferItem("65a1", "acc1") >>,
    << TransferItem("65a1", "acc1"), TransferItem("65b2", "acc2") >> }

\* ObjectId.prototype.toString
ObjectIdToString(oid) == oid.hex

\* data: historyResult.data.map(trx => ({...trx, id: trx._id.toString()}))
withIds(data) ==
  [i \in DOMAIN data |->
     [oid |-> data[i].oid, accountId |-> data[i].accountId,
      id |-> ObjectIdToString(data[i].oid)]]

\* the query: without a user in the context it throws; with one, the service
\* asks for the user's wallets
GetTransferHistoryQuery ==
  /\ callPc = "idle"
  /\ \E args \in HistoryArgs :
       /\ call' = [op |-> "getTransferHistory", args |-> args]
       /\ IF ~Truthy(ctxUser)
          THEN /\ callResult' = Failure(UserNotFound)
               /\ callPc' = "settled"
               /\ effects' = << >>
          ELSE /\ callResult' = Undefined
               /\ callPc' = "findHistoryWallets"
               /\ effects' = << WalletRead(UserWalletFilters(
                                  historyFilters(ctxUser, historyQueryParams(args)))) >>
  /\ storeAtCall' = store
  /\ locals' = NoLocals
  /\ UNCHANGED << userDocs, ctxUser, rates, ledger, foldVars, callVars,
                  batchVars, xferVars >>

\* the wallets answer: their addresses and account ids go to the platform
HistoryWalletsFound ==
  /\ callPc = "findHistoryWallets"
  /\ LET params == historyQueryParams(call.args)
     IN  \E userWallets \in getFilteredUserWallets(historyFilters(ctxUser, params),
                                                    NoPagination) :
           effects' = Append(effects,
             PlatformCall("transfer.getHistory",
                          transferHistoryParams(params, userWallets)))
  /\ callPc' = "awaitHistory"
  /\ UNCHANGED << userDocs, ctxUser, call, locals, callResult, storeAtCall,
                  rates, ledger, foldVars, callVars, batchVars, xferVars >>

\* the platform answers: its error is rethrown with the prefix, its page is
\* returned with an id on every item
HistorySettles ==
  /\ callPc = "awaitHistory"
  /\ \/ callResult' = Failure(HistoryFailurePrefix \o PlatformError)
     \/ \E data \in TransferPages : callResult' = Success(withIds(data))
  /\ callPc' = "settled"
  /\ UNCHANGED << userDocs, ctxUser, call, locals, effects, storeAtCall,
                  rates, ledger, foldVars, callVars, batchVars, xferVars >>

\* the collections of the model: u1 also has an ETH wallet
HistoryWallets ==
  WalletUniverse \cup { Wallet("u1", "ETH", "BSC", "0xA2", "acc4") }

HistoryInit ==
  /\ store \in SUBSET HistoryWallets
  /\ req = Undefined /\ xferPc = "idle" /\ fromWallet = NoWallet
  /\ walletAddress = Undefined /\ executed = << >> /\ outcome = Undefined
  /\ userDocs = {} /\ ctxUser \in Users \cup {Undefined}
  /\ call = Undefined /\ callPc = "idle"
  /\ locals = NoLocals /\ effects = << >> /\ callResult = Undefined
  /\ storeAtCall = store /\ rates = NoRates
  /\ LedgerIdle /\ FoldIdle /\ CallsIdle /\ BatchIdle

HistoryNext == GetTransferHistoryQuery \/ HistoryWalletsFound \/ HistorySettles

SpecHistory == HistoryInit /\ [][HistoryNext]_vars

\* the wallets the authenticated user owns, only those of the symbols asked
\* for when the query names symbols
OwnedForQuery ==
  { w \in storeAtCall :
      /\ w.user = ctxUser
      /\ call.args.symbols.given =>
           w.symbol \in Elements(call.args.symbols.list) }

HistoryCalls ==
  { i \in DOMAIN effects :
      /\ effects[i].kind = "platform"
      /\ effects[i].detail.api = "transfer.getHistory" }

\* C13: the addresses and accountIds getTransferHistory sends to the platform
\* are exactly those of the wallets the authenticated user owns (of the
\* symbols asked for, when symbols are given), never those of another user's
\* wallet, also when the query has no symbols argument.
C13_OwnWalletsSent ==
  (callPc # "idle" /\ call.op = "getTransferHistory") =>
    \A i \in HistoryCalls :
      /\ effects[i].detail.data.addresses = { w.address : w \in OwnedForQuery }
      /\ effects[i].detail.data.accountIds =
           { w.sourceAccountId : w \in OwnedForQuery }

(***************************************************************************)
(* The User collection, checkUserIsAdmin, and the deleteUser mutation      *)
(***************************************************************************)
UserDoc(id, admin) == [id |-> id, admin |-> admin]

\* the User collections of the model: each of the users is absent, a plain
\* user or an admin
UserCollections ==
  { docs \in SUBSET { UserDoc(id, admin) : id \in Users, admin \in BOOLEAN } :
      \A d1, d2 \in docs : d1.id = d2.id => d1 = d2 }

\* User.findById(id): the documents found, none for an undefined id
findById(id) == { d \in userDocs : d.id = id }

\* an id no user has
UnknownUser == "u9"

\* checkUserIsAdmin(userId) is an async function: a call answers a promise.
\* The promise resolves to whether the user has the admin role; for an id no
\* user has it resolves to false or rejects.
checkUserIsAdmin(userId) ==
  [ promise |-> TRUE,
    settles |-> IF findById(userId) = {}
                THEN { [ok |-> TRUE, value |-> FALSE, message |-> ""],
                       [ok |-> FALSE, value |-> FALSE, message |-> UserNotFound] }
                ELSE { [ok |-> TRUE, value |-> d.admin, message |-> ""] :
                         d \in findById(userId) } ]

\* the truthiness of what an expression answers: a promise is an object,
\* and every object is truthy
TruthyObject(x) == x.promise

\* ErrorHandler.handleError(error): the error thrown on, with its message
handleError(message) == Failure(message)

UserIdRequired == "User ID required"
NotAnAdmin == "User is not an admin"
CannotDeleteAdmin == "Cannot delete admin user"
UserWithIdNotFound(id) == "User with ID " \o id \o " not found"

\* the mutation is called: an id is required, then the caller is checked
DeleteUser ==
  /\ callPc \in {"idle", "settled"}
  /\ \E id \in Users \cup {Undefined, UnknownUser} :
       /\ call' = [op |-> "deleteUser", args |-> [id |-> id]]
       /\ IF ~Truthy(id)
          THEN callResult' = handleError(UserIdRequired) /\ callPc' = "settled"
          ELSE callResult' = Undefined /\ callPc' = "checkCaller"
  /\ effects' = << >>
  /\ locals' = NoLocals
  /\ UNCHANGED << userDocs, ctxUser, storeAtCall, rates, ledger, foldVars,
                  callVars, batchVars, xferVars >>

\* await checkUserIsAdmin(context?.user?.data?.id) settles
CallerChecked ==
  /\ callPc = "checkCaller"
  /\ \E answer \in checkUserIsAdmin(ctxUser).settles :
       IF ~answer.ok
       THEN callResult' = handleError(answer.message) /\ callPc' = "settled"
       ELSE IF ~answer.value
       THEN callResult' = handleError(NotAnAdmin) /\ callPc' = "settled"
       ELSE callResult' = callResult /\ callPc' = "findTarget"
  /\ UNCHANGED << userDocs, ctxUser, call, locals, effects, storeAtCall,
                  rates, ledger, foldVars, callVars, batchVars, xferVars >>

\* User.findById(id) answers.  The admin check of the target is called but
\* not awaited: the condition tests the promise.  Past it, findByIdAndDelete
\* removes the document and answers it, or answers null.
TargetFound ==
  /\ callPc = "findTarget"
  /\ LET id      == call.args.id
         user    == findById(id)
         userId  == IF user = {} THEN Undefined ELSE id
     IN  IF TruthyObject(checkUserIsAdmin(userId))
         THEN /\ callResult' = handleError(CannotDeleteAdmin)
              /\ userDocs' = userDocs
         ELSE IF user = {}
         THEN /\ callResult' = handleError(UserWithIdNotFound(id))
              /\ userDocs' = userDocs
         ELSE \E deletedUser \in user :
                /\ userDocs' = userDocs \ {deletedUser}
                /\ callResult' = Success(deletedUser)
  /\ callPc' = "settled"
  /\ UNCHANGED << ctxUser, call, locals, effects, storeAtCall, rates, ledger,
                  foldVars, callVars, batchVars, xferVars >>

\* The register mutation is called: email and password are required, then
\* User.registerUser(args.input) is awaited.
Register ==
  /\ callPc \in {"idle", "settled"}
  /\ \E complete \in BOOLEAN :
       /\ call' = [op |-> "register", args |-> [complete |-> complete]]
       /\ IF ~complete
          THEN /\ callResult' = handleError("Email and password are required")
               /\ callPc' = "settled"
          ELSE callResult' = Undefined /\ callPc' = "registering"
  /\ effects' = << >>
  /\ locals' = NoLocals
  /\ UNCHANGED << userDocs, ctxUser, storeAtCall, rates, ledger, foldVars,
                  callVars, batchVars, xferVars >>

\* (await User.registerUser(args.input)).populate("roles") is not awaited:
\* user is the promise populate answers, which settles to the document or
\* rejects after the mutation has answered.
PopulatedRoles(doc) ==
  [ promise |-> TRUE,
    settles |-> { [ok |-> TRUE, value |-> doc, message |-> ""],
                  [ok |-> FALSE, value |-> doc, message |-> DbError] } ]

\* User.registerUser answers: a document is added to the collection under an
\* id no document has and the mutation answers { user }; or it rejects, with
\* error code 11000 when the email is already in use, and with any other
\* error, which ErrorHandler.handleError throws on.
UserRegistered ==
  /\ callPc = "registering"
  /\ \/ \E id \in Users \ { d.id : d \in userDocs } :
          /\ userDocs' = userDocs \cup {UserDoc(id, FALSE)}
          /\ callResult' = Success([user |-> PopulatedRoles(UserDoc(id, FALSE))])
     \/ /\ userDocs' = userDocs
        /\ callResult' \in {Failure("Email already in use"), handleError(DbError)}
  /\ callPc' = "settled"
  /\ UNCHANGED << ctxUser, call, locals, effects, storeAtCall, rates, ledger,
                  foldVars, callVars, batchVars, xferVars >>

\* checkUser(userId): what the awaited promise settles to, the user's
\* document, or a rejection for an id no user has
checkUser(userId) ==
  IF findById(userId) = {}
  THEN { [ok |-> FALSE, id |-> Undefined, message |-> UserNotFound] }
  ELSE { [ok |-> TRUE, id |-> d.id, message |-> ""] : d \in findById(userId) }

\* args.input of updateUser: no key, keys other than roles, or roles too
UpdateInputs ==
  { [keys |-> 0, roles |-> FALSE, admin |-> FALSE],
    [keys |-> 1, roles |-> FALSE, admin |-> FALSE],
    [keys |-> 1, roles |-> TRUE, admin |-> FALSE],
    [keys |-> 1, roles |-> TRUE, admin |-> TRUE] }

\* The updateUser mutation is called: the caller must be authenticated, then
\* checkUser(userId) is awaited.
UpdateUser ==
  /\ callPc \in {"idle", "settled"}
  /\ \E id \in Users \cup {Undefined, UnknownUser}, input \in UpdateInputs :
       call' = [op |-> "updateUser", args |-> [id |-> id, input |-> input]]
  /\ IF ~Truthy(ctxUser)
     THEN callResult' = handleError("Authentication required") /\ callPc' = "settled"
     ELSE callResult' = Undefined /\ callPc' = "checkUser"
  /\ effects' = << >>
  /\ locals' = NoLocals
  /\ UNCHANGED << userDocs, ctxUser, storeAtCall, rates, ledger, foldVars,
                  callVars, batchVars, xferVars >>

\* checkUser answers.  Update data is required.  With an id given,
\* checkUserIsAdmin(userId) is called and its promise dropped; then
\* findByIdAndUpdate is sent for the id given, or for the caller's own.
UserChecked ==
  /\ callPc = "checkUser"
  /\ \E user \in checkUser(ctxUser) :
       IF ~user.ok
       THEN /\ callResult' = handleError(user.message) /\ callPc' = "settled"
            /\ locals' = locals
       ELSE IF call.args.input.keys = 0
       THEN /\ callResult' = handleError("No update data provided")
            /\ callPc' = "settled"
            /\ locals' = locals
       ELSE /\ locals' = [accounts |-> << >>, saved |-> << >>,
                          target |-> IF Truthy(call.args.id)
                                     THEN call.args.id ELSE user.id]
            /\ callResult' = callResult
            /\ callPc' = "updating"
  /\ UNCHANGED << userDocs, ctxUser, call, effects, storeAtCall, rates, ledger,
                  foldVars, callVars, batchVars, xferVars >>

\* findByIdAndUpdate answers: the document rewritten with args.input, or null
UserUpdated ==
  /\ callPc = "updating"
  /\ LET found == findById(locals.target)
     IN  IF found = {}
         THEN /\ callResult' = handleError(UserNotFound)
              /\ userDocs' = userDocs
         ELSE \E d \in found :
                LET updatedUser == IF call.args.input.roles
                                   THEN UserDoc(d.id, call.args.input.admin)
                                   ELSE d
                IN  /\ userDocs' = (userDocs \ {d}) \cup {updatedUser}
                    /\ callResult' = Success(updatedUser)
  /\ callPc' = "settled"
  /\ UNCHANGED << ctxUser, call, locals, effects, storeAtCall, rates, ledger,
                  foldVars, callVars, batchVars, xferVars >>

UsersInit ==
  /\ userDocs \in UserCollections
  /\ ctxUser \in Users \cup {Undefined}
  /\ call = Undefined /\ callPc = "idle"
  /\ locals = NoLocals /\ effects = << >> /\ callResult = Undefined
  /\ storeAtCall = {} /\ rates = NoRates
  /\ LedgerIdle /\ FoldIdle /\ CallsIdle /\ BatchIdle /\ XferIdle

UsersNext ==
  \/ DeleteUser \/ CallerChecked \/ TargetFound
  \/ Register \/ UserRegistered
  \/ UpdateUser \/ UserChecked \/ UserUpdated

SpecUsers == UsersInit /\ [][UsersNext]_vars

CallerIsAdmin == \E d \in userDocs : d.id = ctxUser /\ d.admin

\* the users deleteUser may remove: those the target id names, admins apart
Deletable == { d \in userDocs : d.id = call'.args.id /\ ~d.admin }

\* a step that settles a deleteUser call
DeleteSettles ==
  /\ call'.op = "deleteUser"
  /\ callPc' = "settled"

\* C15: deleteUser removes a user if and only if the caller is an admin and
\* the target id names an existing user who is not an admin, and returns the
\* deleted user; otherwise it fails with an error and the user store is
\* unchanged.
C15_DeleteIffAdminOnUser ==
  [][ call'.op = "deleteUser" =>
        /\ ~DeleteSettles => userDocs' = userDocs
        /\ DeleteSettles =>
             IF CallerIsAdmin /\ Deletable # {}
             THEN /\ callResult'.status = "resolved"
                  /\ callResult'.value \in Deletable
                  /\ userDocs' = userDocs \ Deletable
             ELSE /\ callResult'.status = "rejected"
                  /\ userDocs' = userDocs ]_vars

(***************************************************************************)
(* RatesService: its constructor, its request options and its methods.     *)
(* Every request it sends is logged in `effects`.                          *)
(***************************************************************************)
MaxRequests == 3   \* most requests sent in one behaviour

BaseUrl == "https://rates.example"

\* process.env.RATES_API_KEY || "" in the environments of the model
EnvApiKeys == {"", "env-key"}

RatesInstance(baseUrl, apiKey) ==
  [constructed |-> TRUE, baseUrl |-> baseUrl, apiKey |-> apiKey]

ApiKeyRequired == "API key is required for RatesService"

\* the headers of a request; Undefined stands for a header that is not set
Headers(authorization, contentType) ==
  [Authorization |-> authorization, ContentType |-> contentType]

NoHeaders == Headers(Undefined, Undefined)

\* what fetch(url, options) is called with
Request(method, url, headers, body) ==
  [kind |-> "http",
   detail |-> [method |-> method, url |-> url, headers |-> headers, body |-> body]]

\* JSON.stringify({margin})
MarginBody(margin) == "{\"margin\":" \o NumberToString(margin) \o "}"

createRequestOptions(method, body) ==
  [method  |-> method,
   headers |-> Headers("Bearer " \o rates.apiKey, "application/json"),
   body    |-> body]

\* fetch called with the options createRequestOptions built
fetchWithOptions(url, options) ==
  Request(options.method, url, options.headers, options.body)

\* the url with the optional currency parameter appended
WithCurrency(url, currency) ==
  IF Truthy(currency) THEN url \o "?currency=" \o currency ELSE url

Coins == {"BTC"}
Fiats == {"EUR", "NGN"}

\* what fetch answers: the response with its status, its body not yet read
ResponseHeads ==
  { [ok |-> TRUE, status |-> 200] }
    \cup { [ok |-> FALSE, status |-> status] : status \in {401, 403, 500} }

NoResponse == [ok |-> FALSE, status |-> 0]

\* the responses of the rates API with their bodies read: a body with a rate,
\* or an error status, whose errorData is the body as JSON.stringify gives it,
\* or null when response.json() rejected
Responses ==
  { [ok |-> TRUE, status |-> 200, rate |-> rate, errorData |-> Null] :
      rate \in {Zero, Num(10), Num(30), Num(70)} }
    \cup { [ok |-> FALSE, status |-> status, rate |-> Zero, errorData |-> errorData] :
             status \in {401, 403, 500},
             errorData \in {Null, "{\"error\":\"down\"}"} }

\* what response.json() may make of a response that arrived
BodiesOf(head) ==
  { response \in Responses : response.ok = head.ok /\ response.status = head.status }

\* handleResponse(response): the JSON of a successful response, an error
\* whose message depends on the status otherwise
handleResponse(response) ==
  IF ~response.ok
  THEN CASE response.status = 401 ->
              Failure("API Error: Unauthorized. Please check your API key.")
         [] response.status = 403 ->
              Failure("API Error: Forbidden. Your API key might not have sufficient permissions.")
         [] OTHER ->
              Failure("API Error: " \o
                      (IF Truthy(response.errorData) THEN response.errorData
                       ELSE "HTTP error " \o NatToString(response.status)))
  ELSE Success(response.rate)

\* amount / fromRate * toRate, in IEEE 754 double arithmetic: each operation
\* answers the double nearest to its exact result, ties going to the even
\* significand.  The operands are numbers kept in tenths that are whole
\* numbers of halves, which a double holds exactly.  A result that is such a
\* number is kept in tenths; any other finite result is the double
\* sign * bits * 2^exp, bits its 53-bit significand, first bit first; and a
\* division by zero answers Infinity with a sign, or NaN.
Infinity(sign) == [nan |-> FALSE, v |-> 0, inf |-> sign]
IsInfinity(a) == "inf" \in DOMAIN a
IsDouble(a) == "bits" \in DOMAIN a
Sign(n) == IF n < 0 THEN -1 ELSE 1
Abs(n) == IF n < 0 THEN -n ELSE n

RECURSIVE NatToBits(_)
NatToBits(n) == IF n = 0 THEN << >> ELSE Append(NatToBits(n \div 2), n % 2)

RECURSIVE Pow2(_)
Pow2(k) == IF k = 0 THEN 1 ELSE 2 * Pow2(k - 1)

\* the bit sequences are taken apart in the middle, and the half that hands
\* on a carry or a remainder is worked out before the other, to keep the
\* evaluation shallow
RECURSIVE BitsToNat(_)
BitsToNat(bits) ==
  IF bits = << >> THEN 0
  ELSE IF Len(bits) = 1 THEN bits[1]
  ELSE LET half == Len(bits) \div 2
       IN  BitsToNat(SubSeq(bits, 1, half)) * Pow2(Len(bits) - half)
             + BitsToNat(SubSeq(bits, half + 1, Len(bits)))

\* the next k bits of the binary expansion of r / d, r < d, and what is left
RECURSIVE FracBits(_, _, _)
FracBits(r, d, k) ==
  IF k = 0 THEN [bits |-> << >>, r |-> r]
  ELSE IF k = 1
  THEN IF 2 * r >= d THEN [bits |-> <<1>>, r |-> 2 * r - d]
                     ELSE [bits |-> <<0>>, r |-> 2 * r]
  ELSE LET first == FracBits(r, d, k \div 2)
           rest  == FracBits(first.r, d, k - k \div 2)
       IN  CASE first.r >= 0 ->
                  [bits |-> first.bits \o rest.bits, r |-> rest.r]

\* the zeros before the first 1 of the binary expansion of r / d, 0 < r < d
RECURSIVE LeadingZeros(_, _)
LeadingZeros(r, d) == IF 2 * r >= d THEN 0 ELSE 1 + LeadingZeros(2 * r, d)

\* bits * c + carry for a whole number c, in as many bits, and the carry out
\* of the first bit
RECURSIVE TimesBits(_, _, _)
TimesBits(bits, c, carry) ==
  IF bits = << >> THEN [bits |-> << >>, carry |-> carry]
  ELSE IF Len(bits) = 1
  THEN [bits |-> <<(bits[1] * c + carry) % 2>>,
        carry |-> (bits[1] * c + carry) \div 2]
  ELSE LET half == Len(bits) \div 2
           last == TimesBits(SubSeq(bits, half + 1, Len(bits)), c, carry)
           rest == TimesBits(SubSeq(bits, 1, half), c, last.carry)
       IN  CASE last.carry >= 0 ->
                  [bits |-> rest.bits \o last.bits, carry |-> rest.carry]

\* bits + 1
IncBits(bits) == TimesBits(bits, 1, 1)

\* the double sign * bits * 2^exp, kept in tenths when it is a whole number
\* of halves
Double(sign, bits, exp) ==
  LET low == 0 - exp - 1
  IN  IF /\ low >= 29 /\ low <= 52
         /\ \A i \in (53 - low + 1)..53 : bits[i] = 0
      THEN Num(sign * BitsToNat(SubSeq(bits, 1, 53 - low)) * 5)
      ELSE [nan |-> FALSE, v |-> 0, sign |-> sign, bits |-> bits, exp |-> exp]

\* 53 bits rounded up or left as they are
Rounded(sign, bits, exp, up) ==
  IF ~up THEN Double(sign, bits, exp)
  ELSE LET inc == IncBits(bits)
       IN  IF inc.carry = 1
           THEN Double(sign, <<1>> \o SubSeq(inc.bits, 1, 52), exp + 1)
           ELSE Double(sign, inc.bits, exp)

\* the double nearest to sign * n / d, for whole numbers n > 0 and d > 0
Nearest(sign, n, d) ==
  LET whole  == NatToBits(n \div d)
      zeros  == IF whole = << >> THEN LeadingZeros(n, d) ELSE 0
      taken  == FracBits((n % d) * Pow2(zeros), d, 53 - Len(whole))
      bits   == whole \o taken.bits
      up     == \/ 2 * taken.r > d
                \/ 2 * taken.r = d /\ bits[53] = 1
  IN  Rounded(sign, bits, 0 - (zeros + 53 - Len(whole)), up)

\* the double nearest to the double a times c / 2, for a whole number c > 0
TimesHalves(sign, a, c) ==
  LET times   == TimesBits(a.bits, c, 0)
      product == NatToBits(times.carry) \o times.bits
      more    == Len(product) - 53
      up      == /\ more > 0
                 /\ product[54] = 1
                 /\ \/ product[53] = 1
                    \/ \E i \in 55..Len(product) : product[i] = 1
  IN  Rounded(sign, SubSeq(product, 1, 53), a.exp - 1 + more, up)

\* a / b on two numbers kept in tenths, whole numbers of halves
Div(a, b) ==
  IF a.nan \/ b.nan THEN NaN
  ELSE IF b.v = 0 THEN (IF a.v = 0 THEN NaN ELSE Infinity(Sign(a.v)))
  ELSE IF a.v = 0 THEN Zero
  ELSE CASE a.v % 5 = 0 /\ b.v % 5 = 0 ->
              Nearest(Sign(a.v) * Sign(b.v), Abs(a.v) \div 5, Abs(b.v) \div 5)

\* a * b, a the quotient and b a number kept in tenths, a whole number of
\* halves
Mul(a, b) ==
  IF a.nan \/ b.nan THEN NaN
  ELSE IF IsInfinity(a) THEN (IF b.v = 0 THEN NaN ELSE Infinity(a.inf * Sign(b.v)))
  ELSE IF b.v = 0 THEN Zero
  ELSE CASE b.v % 5 = 0 ->
              IF IsDouble(a)
              THEN TimesHalves(a.sign * Sign(b.v), a, Abs(b.v) \div 5)
              ELSE IF a.v = 0 THEN Zero
              ELSE Nearest(Sign(a.v) * Sign(b.v),
                           (Abs(a.v) \div 5) * (Abs(b.v) \div 5), 4)

\* new RatesService(baseUrl, apiKey); apiKey defaults to the environment's
NewRatesService ==
  /\ ~rates.constructed
  /\ callPc = "idle"
  /\ \E envKey \in EnvApiKeys, given \in {Undefined, "", "key-1"} :
       LET apiKey == IF given = Undefined THEN envKey ELSE given
       IN  /\ call' = [op |-> "constructor", args |-> [apiKey |-> given]]
           /\ IF ~Truthy(apiKey)
              THEN /\ rates' = rates
                   /\ callResult' = Failure(ApiKeyRequired)
              ELSE /\ rates' = RatesInstance(BaseUrl, apiKey)
                   /\ callResult' = Success(Zero)
  /\ UNCHANGED << userDocs, ctxUser, callPc, locals, effects, storeAtCall,
                  ledger, foldVars, callVars, batchVars, xferVars >>

\* a method sends its request and awaits the answer of fetch
Send(op, request) ==
  /\ rates.constructed
  /\ callPc \in {"idle", "settled"}
  /\ Len(effects) < MaxRequests
  /\ call' = [op |-> op, args |-> << >>]
  /\ effects' = Append(effects, request)
  /\ callPc' = "awaitResponse"
  /\ callResult' = Undefined
  /\ locals' = [response |-> NoResponse]
  /\ UNCHANGED << userDocs, ctxUser, storeAtCall, rates,
                  ledger, foldVars, callVars, batchVars, xferVars >>

getAllPrices ==
  Send("getAllPrices",
       fetchWithOptions(rates.baseUrl \o "/api/prices",
                        createRequestOptions("GET", Undefined)))

getPrice ==
  \E symbol \in Coins, currency \in {Undefined, "NGN"} :
    Send("getPrice",
         fetchWithOptions(WithCurrency(rates.baseUrl \o "/api/price/" \o symbol, currency),
                          createRequestOptions("GET", Undefined)))

updateMargin ==
  \E symbol \in Coins, margin \in {Num(25)} :
    Send("updateMargin",
         fetchWithOptions(rates.baseUrl \o "/api/update-margin/" \o symbol,
                          createRequestOptions("PUT", MarginBody(margin))))

triggerPriceUpdate ==
  Send("triggerPriceUpdate",
       fetchWithOptions(rates.baseUrl \o "/api/update-prices",
                        createRequestOptions("POST", Undefined)))

updateCoinPrice ==
  \E coin \in Coins :
    Send("updateCoinPrice",
         Request("POST", rates.baseUrl \o "/api/update-price/" \o coin,
                 NoHeaders, Undefined))

getAllFiatPrices ==
  Send("getAllFiatPrices",
       Request("GET", rates.baseUrl \o "/api/fiat-prices", NoHeaders, Undefined))

\* the request of getFiatPrice(symbol, targetCurrency)
fiatPriceRequest(symbol, targetCurrency) ==
  Request("GET",
          WithCurrency(rates.baseUrl \o "/api/fiat-price/" \o symbol, targetCurrency),
          NoHeaders, Undefined)

getFiatPrice ==
  \E symbol \in Fiats, targetCurrency \in {Undefined, "NGN"} :
    Send("getFiatPrice", fiatPriceRequest(symbol, targetCurrency))

\* fetch answers a single-request method: the response is handed to
\* handleResponse, which awaits response.json()
ResponseArrived ==
  /\ callPc = "awaitResponse"
  /\ \E head \in ResponseHeads : locals' = [locals EXCEPT !.response = head]
  /\ callPc' = "awaitJson"
  /\ UNCHANGED << userDocs, ctxUser, call, effects, callResult, storeAtCall, rates,
                  ledger, foldVars, callVars, batchVars, xferVars >>

\* response.json() answers: handleResponse returns the body or throws, and
\* the method settles
ResponseHandled ==
  /\ callPc = "awaitJson"
  /\ \E response \in BodiesOf(locals.response) :
       callResult' = handleResponse(response)
  /\ callPc' = "settled"
  /\ UNCHANGED << userDocs, ctxUser, call, locals, effects, storeAtCall, rates,
                  ledger, foldVars, callVars, batchVars, xferVars >>

\* convertCurrency(amount, fromCurrency, toCurrency): nothing is fetched for
\* equal currencies; else the rate of fromCurrency is asked for first
convertCurrency ==
  /\ rates.constructed
  /\ callPc \in {"idle", "settled"}
  /\ Len(effects) + 1 < MaxRequests
  /\ \E amount \in {Num(100)}, fromCurrency \in Fiats, toCurrency \in Fiats :
       /\ call' = [op |-> "convertCurrency", args |-> << >>]
       /\ locals' = [amount |-> amount, toCurrency |-> toCurrency, fromRate |-> Zero,
                     response |-> NoResponse]
       /\ IF fromCurrency = toCurrency
          THEN /\ callResult' = Success(amount)
               /\ callPc' = "settled"
               /\ effects' = effects
          ELSE /\ callResult' = Undefined
               /\ callPc' = "awaitFromRate"
               /\ effects' = Append(effects, fiatPriceRequest(fromCurrency, Undefined))
  /\ UNCHANGED << userDocs, ctxUser, storeAtCall, rates,
                  ledger, foldVars, callVars, batchVars, xferVars >>

\* fetch answers the first getFiatPrice, which awaits response.json()
FromRateArrived ==
  /\ callPc = "awaitFromRate"
  /\ \E head \in ResponseHeads : locals' = [locals EXCEPT !.response = head]
  /\ callPc' = "awaitFromJson"
  /\ UNCHANGED << userDocs, ctxUser, call, effects, callResult, storeAtCall, rates,
                  ledger, foldVars, callVars, batchVars, xferVars >>

\* its response.json() answers: an error settles the call, the rate of
\* fromCurrency is kept and the rate of toCurrency is asked for
FromRateHandled ==
  /\ callPc = "awaitFromJson"
  /\ \E response \in BodiesOf(locals.response) :
       LET fromRate == handleResponse(response)
       IN  IF fromRate.status = "rejected"
           THEN /\ callResult' = fromRate
                /\ callPc' = "settled"
                /\ UNCHANGED << locals, effects >>
           ELSE /\ locals' = [locals EXCEPT !.fromRate = fromRate.value]
                /\ effects' = Append(effects,
                                     fiatPriceRequest(locals.toCurrency, Undefined))
                /\ callPc' = "awaitToRate"
                /\ callResult' = callResult
  /\ UNCHANGED << userDocs, ctxUser, call, storeAtCall, rates,
                  ledger, foldVars, callVars, batchVars, xferVars >>

\* fetch answers the second getFiatPrice, which awaits response.json()
ToRateArrived ==
  /\ callPc = "awaitToRate"
  /\ \E head \in ResponseHeads : locals' = [locals EXCEPT !.response = head]
  /\ callPc' = "awaitToJson"
  /\ UNCHANGED << userDocs, ctxUser, call, effects, callResult, storeAtCall, rates,
                  ledger, foldVars, callVars, batchVars, xferVars >>

\* its response.json() answers: the amount is converted through USD
ToRateHandled ==
  /\ callPc = "awaitToJson"
  /\ \E response \in BodiesOf(locals.response) :
       LET toRate == handleResponse(response)
       IN  callResult' =
             IF toRate.status = "rejected" THEN toRate
             ELSE Success(Mul(Div(locals.amount, locals.fromRate), toRate.value))
  /\ callPc' = "settled"
  /\ UNCHANGED << userDocs, ctxUser, call, locals, effects, storeAtCall, rates,
                  ledger, foldVars, callVars, batchVars, xferVars >>

RatesInit ==
  /\ rates = NoRates
  /\ userDocs = {} /\ ctxUser = Undefined /\ call = Undefined /\ callPc = "idle"
  /\ locals = NoLocals /\ effects = << >> /\ callResult = Undefined
  /\ storeAtCall = {}
  /\ LedgerIdle /\ FoldIdle /\ CallsIdle /\ BatchIdle /\ XferIdle

RatesNext ==
  \/ NewRatesService
  \/ getAllPrices
  \/ getPrice
  \/ updateMargin
  \/ triggerPriceUpdate
  \/ updateCoinPrice
  \/ getAllFiatPrices
  \/ getFiatPrice
  \/ ResponseArrived
  \/ ResponseHandled
  \/ convertCurrency
  \/ FromRateArrived
  \/ FromRateHandled
  \/ ToRateArrived
  \/ ToRateHandled

SpecRates == RatesInit /\ [][RatesNext]_vars

\* C16: every HTTP request a RatesService sends carries the header
\* 'Authorization: Bearer <apiKey>', and no instance has an empty API key.
C16_ApiKeyOnEveryRequest ==
  /\ rates.constructed => rates.apiKey # ""
  /\ \A i \in DOMAIN effects :
       effects[i].kind = "http" =>
         effects[i].detail.headers.Authorization = "Bearer " \o rates.apiKey

(***************************************************************************)
(* The wallet and transfer resolvers.  Each reads context.user.data.id     *)
(* into userId; every platform call and every read or write of the wallet  *)
(* collection they cause is logged in `effects`, those of transferAssets   *)
(* in the variables of the transfer.                                       *)
(***************************************************************************)
\* the filters argument of getUserWallets and getSupportedWallets
\* args.filters and args.pagination || {}: a client that gives no pagination
\* hands on an object without page and limit
WalletQueryArgs ==
  [ userId     : {Undefined, "u2"},
    symbols    : {NotGiven, Given(<<"BTC">>)},
    pagination : { [page |-> 0, limit |-> 0], [page |-> 1, limit |-> 1],
                   [page |-> 2, limit |-> 1] } ]

\* getUserWallets: {...filters, userId: userIsAdmin ? filters.userId : userId}
userWalletsFilters(args, userId, userIsAdmin) ==
  FilterOptions(IF userIsAdmin THEN args.userId ELSE userId, args.symbols, NotGiven)

\* getSupportedWallets: if (!userIsAdmin) filters.userId = userId
supportedFilters(args, userId, userIsAdmin) ==
  FilterOptions(IF userIsAdmin THEN args.userId ELSE userId, args.symbols, NotGiven)

\* the filter of a findOne({user, symbol, network})
bySymbolFilter(userId, symbol, network) ==
  [user |-> Eq(userId), symbol |-> Eq(toUpperCase(symbol)), network |-> Eq(network)]

\* what the platform's getSupportedWallets may answer: the symbols supported
SupportedAnswers == { <<"BTC">>, <<"BTC", "ETH">> }

\* supportedWallets filtered by filters.symbols when given
supportedOf(supported, filters) ==
  IF filters.symbols.given
  THEN SelectSeq(supported, LAMBDA symbol : symbol \in Elements(filters.symbols.list))
  ELSE supported

\* the filter of the wallets merged into the supported ones
supportedWalletsFilter(supported, filters) ==
  [UserWalletFilters(filters) EXCEPT !.symbol = In(Elements(supported))]

\* getSupportedWallets({filters, pagination}); pagination defaults to
\* {page: 1, limit: 100}, and its page and limit are handed on
supportedPagination(pagination) ==
  LET given == IF pagination = NoPagination
               THEN [page |-> 1, limit |-> 100] ELSE pagination
  IN  [page |-> given.page, limit |-> given.limit]

\* one merged entry per supported wallet: the accounts of the wallets found
\* for its symbol
mergedWallets(supported, data) ==
  [i \in DOMAIN supported |->
     [symbol   |-> supported[i],
      accounts |-> { w.address : w \in { x \in data : x.symbol = supported[i] } }]]

FeeFailurePrefix == "Failed to calculate transfer fee: "
feeWalletMissing(symbol) == "User doesn't have a " \o symbol \o " wallet"

FeeArgs == [amount : {Num(10)}, symbol : {"btc", "BTC"}, network : Networks]

feeParams(args, userWallet) ==
  [symbol |-> toUpperCase(args.symbol), amount |-> NumberToString(args.amount),
   address |-> userWallet.address]

\* the start of a resolver call
Begin(op, args) ==
  /\ callPc = "idle"
  /\ call' = [op |-> op, args |-> args]
  /\ storeAtCall' = store
  /\ UNCHANGED << userDocs, ctxUser, rates, ledger, foldVars, callVars, batchVars >>

\* getUserWallets: a missing user throws, else the admin check is awaited
GetUserWalletsQuery ==
  /\ \E args \in WalletQueryArgs : Begin("getUserWallets", args)
  /\ IF ~Truthy(ctxUser)
     THEN callResult' = Failure(UserNotFound) /\ callPc' = "settled"
     ELSE callResult' = Undefined /\ callPc' = "checkAdmin"
  /\ effects' = << >>
  /\ locals' = NoLocals
  /\ UNCHANGED xferVars

\* getSupportedWallets: the admin check is awaited, whatever the context
GetSupportedWalletsQuery ==
  /\ \E args \in WalletQueryArgs : Begin("getSupportedWallets", args)
  /\ callResult' = Undefined
  /\ callPc' = "checkAdmin"
  /\ effects' = << >>
  /\ locals' = NoLocals
  /\ UNCHANGED xferVars

\* the admin check settles: its error is thrown on; getUserWallets then asks
\* for the wallets, getSupportedWallets asks the platform what it supports
AdminChecked ==
  /\ callPc = "checkAdmin"
  /\ \E answer \in checkUserIsAdmin(ctxUser).settles :
       IF ~answer.ok
       THEN /\ callResult' = Failure(answer.message)
            /\ callPc' = "settled"
            /\ UNCHANGED << locals, effects >>
       ELSE IF call.op = "getUserWallets"
       THEN LET filters == userWalletsFilters(call.args, ctxUser, answer.value)
            IN  /\ locals' = [filters |-> filters, supported |-> << >>]
                /\ effects' = Append(effects, WalletRead(UserWalletFilters(filters)))
                /\ callPc' = "findWallets"
                /\ callResult' = callResult
       ELSE LET filters == supportedFilters(call.args, ctxUser, answer.value)
            IN  /\ locals' = [filters |-> filters, supported |-> << >>]
                /\ effects' = Append(effects,
                                     PlatformCall("wallet.getSupportedWallets", << >>))
                /\ callPc' = "awaitSupported"
                /\ callResult' = callResult
  /\ UNCHANGED << userDocs, ctxUser, call, storeAtCall, rates, ledger,
                  foldVars, callVars, batchVars, xferVars >>

\* getUserWallets: the page of wallets is returned
WalletsFound ==
  /\ callPc = "findWallets"
  /\ \E wallets \in getFilteredUserWallets(locals.filters, call.args.pagination) :
       callResult' = Success(wallets)
  /\ callPc' = "settled"
  /\ UNCHANGED << userDocs, ctxUser, call, locals, effects, storeAtCall, rates,
                  ledger, foldVars, callVars, batchVars, xferVars >>

\* getSupportedWallets: the platform answers; its error is thrown on, its
\* list is filtered and the wallets of its symbols are asked for
SupportedAnswered ==
  /\ callPc = "awaitSupported"
  /\ \/ /\ callResult' = Failure(PlatformError)
        /\ callPc' = "settled"
        /\ UNCHANGED << locals, effects >>
     \/ \E answer \in SupportedAnswers :
          LET supported == supportedOf(answer, locals.filters)
          IN  /\ locals' = [locals EXCEPT !.supported = supported]
              /\ effects' = Append(effects,
                   WalletRead(supportedWalletsFilter(supported, locals.filters)))
              /\ callPc' = "findSupportedWallets"
              /\ callResult' = callResult
  /\ UNCHANGED << userDocs, ctxUser, call, storeAtCall, rates, ledger,
                  foldVars, callVars, batchVars, xferVars >>

\* getSupportedWallets: the wallets found are merged into the supported ones
SupportedWalletsFound ==
  /\ callPc = "findSupportedWallets"
  /\ \E userWalletsData \in
         paginateCollection(supportedPagination(call.args.pagination),
                            supportedWalletsFilter(locals.supported, locals.filters)) :
       callResult' =
         Success([data |-> mergedWallets(locals.supported, userWalletsData.data),
                  meta |-> [userWalletsData.meta EXCEPT
                              !.total = Len(locals.supported)]])
  /\ callPc' = "settled"
  /\ UNCHANGED << userDocs, ctxUser, call, locals, effects, storeAtCall, rates,
                  ledger, foldVars, callVars, batchVars, xferVars >>

\* getUserWalletBySymbol: a missing user throws, else the wallet is asked for
GetUserWalletBySymbolQuery ==
  /\ \E symbol \in {"btc", "ETH"} : Begin("getUserWalletBySymbol", [symbol |-> symbol])
  /\ IF ~Truthy(ctxUser)
     THEN /\ callResult' = Failure(UserNotFound) /\ callPc' = "settled"
          /\ effects' = << >>
     ELSE /\ callResult' = Undefined /\ callPc' = "findWallet"
          /\ effects' = << WalletRead(bySymbolFilter(ctxUser, call'.args.symbol, Undefined)) >>
  /\ locals' = NoLocals
  /\ UNCHANGED xferVars

\* the wallet, or null, is returned
WalletBySymbolFound ==
  /\ callPc = "findWallet"
  /\ LET found == getUserWalletBySymbol(ctxUser, call.args.symbol, Undefined)
     IN  \/ found = {} /\ callResult' = Success(NoWallet)
         \/ \E w \in found : callResult' = Success(w)
  /\ callPc' = "settled"
  /\ UNCHANGED << userDocs, ctxUser, call, locals, effects, storeAtCall, rates,
                  ledger, foldVars, callVars, batchVars, xferVars >>

\* calculateTransferFee: a missing user throws, else the service asks for the
\* user's wallet
CalculateTransferFeeQuery ==
  /\ \E input \in FeeArgs : Begin("calculateTransferFee", input)
  /\ IF ~Truthy(ctxUser)
     THEN /\ callResult' = Failure(UserNotFound) /\ callPc' = "settled"
          /\ effects' = << >>
     ELSE /\ callResult' = Undefined /\ callPc' = "findFeeWallet"
          /\ effects' = << WalletRead(bySymbolFilter(ctxUser, call'.args.symbol,
                                                     call'.args.network)) >>
  /\ locals' = NoLocals
  /\ UNCHANGED xferVars

\* the wallet answers: none throws, one has the platform compute the fee
FeeWalletFound ==
  /\ callPc = "findFeeWallet"
  /\ LET found == getUserWalletBySymbol(ctxUser, call.args.symbol, call.args.network)
     IN  IF found = {}
         THEN /\ callResult' =
                   Failure(FeeFailurePrefix \o feeWalletMissing(call.args.symbol))
              /\ callPc' = "settled"
              /\ effects' = effects
         ELSE \E userWallet \in found :
                /\ effects' = Append(effects,
                     PlatformCall("transfer.calculateFee", feeParams(call.args, userWallet)))
                /\ callPc' = "awaitFee"
                /\ callResult' = callResult
  /\ UNCHANGED << userDocs, ctxUser, call, locals, storeAtCall, rates, ledger,
                  foldVars, callVars, batchVars, xferVars >>

\* the platform answers with the fee or with an error
FeeSettles ==
  /\ callPc = "awaitFee"
  /\ \/ callResult' = Failure(FeeFailurePrefix \o PlatformError)
     \/ \E fee \in {"0.001"} : callResult' = Success(fee)
  /\ callPc' = "settled"
  /\ UNCHANGED << userDocs, ctxUser, call, locals, effects, storeAtCall, rates,
                  ledger, foldVars, callVars, batchVars, xferVars >>

\* reading a property of null
NullEmail == "Cannot read properties of null (reading 'email')"

\* the input of the createUserWallets mutation, the defaults of the service's
\* parameters applied to missing symbols and networks
CreateInputs ==
  [ symbols  : { <<"BTC">>, DefaultSymbols },
    networks : { DefaultNetworks, <<"BSC", "ETHEREUM">> } ]

\* createUserWallets: the user of the context is looked up, signed in or not
CreateUserWalletsMutation ==
  /\ \E input \in CreateInputs :
       Begin("createUserWallets",
             [userId |-> ctxUser, symbols |-> input.symbols,
              networks |-> input.networks])
  /\ callPc' = "findUser"
  /\ callResult' = Undefined
  /\ effects' = << >>
  /\ locals' = NoLocals
  /\ UNCHANGED xferVars

\* User.findById answers: user.email throws on null; with a user, the service
\* is called and asks for the user's wallets of the symbols and networks
UserFound ==
  /\ callPc = "findUser"
  /\ IF findById(ctxUser) = {}
     THEN /\ callResult' = Failure(NullEmail)
          /\ callPc' = "settled"
          /\ effects' = effects
     ELSE /\ effects' = Append(effects,
               WalletRead(UserWalletFilters(existingFilters(call.args))))
          /\ callPc' = "findExisting"
          /\ callResult' = callResult
  /\ UNCHANGED << userDocs, ctxUser, call, locals, storeAtCall, rates, ledger,
                  foldVars, callVars, batchVars, xferVars >>

\* the input of the transferAssets mutation
TransferInputs ==
  [ toUserId    : Users \cup {Undefined},
    toAddress   : {Undefined, "0xEXT"},
    amount      : {Num(10)},
    symbol      : {"btc", "ETH"},
    network     : Networks,
    description : {Undefined} ]

\* the arguments the resolver hands to transferAssets
transferRequest(input, userId) ==
  [ fromUserId  |-> userId,
    toUserId    |-> input.toUserId,
    toAddress   |-> input.toAddress,
    amount      |-> input.amount,
    symbol      |-> input.symbol,
    network     |-> input.network,
    description |-> input.description ]

\* transferResult.data, the platform's receipt
TransferReceipt == "receipt"

\* transferAssets: a missing user throws, else the service is called with the
\* user as the sender
TransferAssetsMutation ==
  /\ xferPc = "idle"
  /\ \E input \in TransferInputs :
       /\ Begin("transferAssets", input)
       /\ IF ~Truthy(ctxUser)
          THEN /\ callResult' = Failure(UserNotFound)
               /\ callPc' = "settled"
               /\ UNCHANGED xferVars
          ELSE /\ callResult' = Undefined
               /\ callPc' = "transferring"
               /\ req' = transferRequest(input, ctxUser)
               /\ xferPc' = "findSender"
               /\ fromWallet' = NoWallet
               /\ walletAddress' = Undefined
               /\ executed' = << >>
               /\ outcome' = Undefined
               /\ store' = store
  /\ effects' = << >>
  /\ locals' = NoLocals

\* transferAssets settled: its error is thrown on, its receipt returned
TransferReturned ==
  /\ callPc = "transferring"
  /\ xferPc = "settled"
  /\ callResult' = IF outcome.status = "rejected"
                   THEN Failure(outcome.message) ELSE Success(TransferReceipt)
  /\ callPc' = "settled"
  /\ UNCHANGED << userDocs, ctxUser, call, locals, effects, storeAtCall, rates,
                  ledger, foldVars, callVars, batchVars, xferVars >>

\* The resolver module is loaded: walletService and ratesService are
\* constructed, ratesService with the environment's API key.  Without a key
\* the constructor throws, the import fails and no resolver can be called.
ResolversInit ==
  /\ store \in SUBSET WalletUniverse
  /\ req = Undefined /\ xferPc = "idle" /\ fromWallet = NoWallet
  /\ walletAddress = Undefined /\ executed = << >> /\ outcome = Undefined
  /\ userDocs \in UserCollections
  /\ ctxUser \in Users \cup {Undefined}
  /\ \E envKey \in EnvApiKeys :
       IF Truthy(envKey)
       THEN /\ rates = RatesInstance(BaseUrl, envKey)
            /\ call = [op |-> "import", args |-> << >>]
            /\ callPc = "idle" /\ callResult = Undefined
       ELSE /\ rates = NoRates
            /\ call = [op |-> "import", args |-> << >>]
            /\ callPc = "importFailed" /\ callResult = Failure(ApiKeyRequired)
  /\ locals = NoLocals /\ effects = << >>
  /\ storeAtCall = store
  /\ LedgerIdle /\ FoldIdle /\ CallsIdle /\ BatchIdle

ResolversNext ==
  \/ GetUserWalletsQuery
  \/ GetSupportedWalletsQuery
  \/ AdminChecked
  \/ WalletsFound
  \/ SupportedAnswered
  \/ SupportedWalletsFound
  \/ GetUserWalletBySymbolQuery
  \/ WalletBySymbolFound
  \/ CalculateTransferFeeQuery
  \/ FeeWalletFound
  \/ FeeSettles
  \/ CreateUserWalletsMutation
  \/ UserFound
  \/ ExistingWalletsFound
  \/ SubaccountsCreated
  \/ \E i \in 1..MaxAccounts : WalletSaved(i)
  \/ \E i \in 1..MaxAccounts : WalletPopulated(i)
  \/ GetTransferHistoryQuery
  \/ HistoryWalletsFound
  \/ HistorySettles
  \/ TransferAssetsMutation
  \/ SenderFound
  \/ RecipientFound
  \/ TransferSettles
  \/ TransferReturned

SpecResolvers == ResolversInit /\ [][ResolversNext]_vars

Unauthenticated == ~Truthy(ctxUser)

\* Without an authenticated user in the request context a call fails with an
\* error, calls the platform never and neither reads nor writes a wallet
\* record.
NoUserNoEffect ==
  /\ effects = << >>
  /\ xferPc = "idle" /\ executed = << >>
  /\ store = storeAtCall
  /\ callPc = "settled" => callResult.status = "rejected"

\* The resolvers that test the user id themselves (getUserWallets,
\* getUserWalletBySymbol, getTransferHistory, calculateTransferFee,
\* transferAssets) or fail on the user that was not found (createUserWallets)
\* do so whatever code outside these files answers.
GuardedResolversNoEffect ==
  (Unauthenticated /\ callPc # "idle" /\ call.op # "getSupportedWallets")
    => NoUserNoEffect

\* getSupportedWallets has no test of its own: without a user it does what
\* checkUserIsAdmin(undefined) has it do, failing with no effect when that
\* call rejects.
SupportedWalletsAsAdminCheck ==
  (Unauthenticated /\ callPc = "settled" /\ call.op = "getSupportedWallets"
     /\ callResult = Failure(UserNotFound))
    => NoUserNoEffect

====
